---- MODULE Spec2Model ----
(***************************************************************************)
(* A model of the SEO audit tool: the orchestrator (server/runAudit.js),   *)
(* the crawler (server/crawler.js) and the scoring engine                  *)
(* (server/scoringEngine.js).  Three specifications share one state:       *)
(*   SpecAudit  one call of runAudit, stage by stage;                      *)
(*   SpecCrawl  one call of crawlSite, one loop iteration per step;        *)
(*   SpecScore  calls of scoreRule on drawn rules and raw values.          *)
(***************************************************************************)
EXTENDS Integers, Sequences, FiniteSets, TLC

(***************************************************************************)
(* Bounds of the model.                                                    *)
(***************************************************************************)
\* crawlSite is called with maxPages in 0..MaxMaxPages
MaxMaxPages == 3
\* the abstract crawl stage of runAudit returns 0..MaxCorpus pages
MaxCorpus == 2
\* median is called with lists of 0..MaxSamples samples
MaxSamples == 3

(***************************************************************************)
(* JavaScript values.  Every value is a record tagged by t:                *)
(*   "undefined", "null", "boolean" (b), "string" (s: sequence of chars),  *)
(*   "num" (a finite number n/d in lowest terms, d > 0), "nan",            *)
(*   "inf" (s = 1 or -1).  typeof x === 'number' is t in {num, nan, inf}.  *)
(***************************************************************************)
Abs(x) == IF x < 0 THEN -x ELSE x

RECURSIVE Gcd(_, _)
Gcd(a, b) == IF b = 0 THEN a ELSE Gcd(b, a % b)

Undefined == [t |-> "undefined"]
Null == [t |-> "null"]
NaN == [t |-> "nan"]
Inf(s) == [t |-> "inf", s |-> s]
Bool(b) == [t |-> "boolean", b |-> b]
Str(s) == [t |-> "string", s |-> s]

\* the finite number n/d (d # 0), in lowest terms with a positive denominator
Num(n, d) ==
    LET g == Gcd(Abs(n), Abs(d))
        s == IF d < 0 THEN -1 ELSE 1
    IN  [t |-> "num", n |-> (s * n) \div g, d |-> (s * d) \div g]

IsNumber(x) == x.t \in {"num", "nan", "inf"}
IsFinite(x) == x.t = "num"
\* x == null in JavaScript: null or undefined
IsNullish(x) == x.t \in {"undefined", "null"}
Sign(x) == IF x.t = "inf" THEN x.s ELSE IF x.n > 0 THEN 1 ELSE IF x.n < 0 THEN -1 ELSE 0

\* a < b on numbers (false as soon as one side is NaN)
JsLt(a, b) ==
    IF a.t = "nan" \/ b.t = "nan" THEN FALSE
    ELSE IF a.t = "inf" THEN a.s = -1 /\ ~(b.t = "inf" /\ b.s = -1)
    ELSE IF b.t = "inf" THEN b.s = 1
    ELSE a.n * b.d < b.n * a.d
JsEq(a, b) == a.t # "nan" /\ b.t # "nan" /\ a = b
JsLe(a, b) == JsLt(a, b) \/ JsEq(a, b)
JsGe(a, b) == JsLe(b, a)

JsNeg(a) ==
    IF a.t = "nan" THEN NaN
    ELSE IF a.t = "inf" THEN Inf(-a.s)
    ELSE Num(-a.n, a.d)
JsAdd(a, b) ==
    IF a.t = "nan" \/ b.t = "nan" THEN NaN
    ELSE IF a.t = "inf" /\ b.t = "inf" THEN (IF a.s = b.s THEN a ELSE NaN)
    ELSE IF a.t = "inf" THEN a
    ELSE IF b.t = "inf" THEN b
    ELSE Num(a.n * b.d + b.n * a.d, a.d * b.d)
JsSub(a, b) == JsAdd(a, JsNeg(b))
JsMul(a, b) ==
    IF a.t = "nan" \/ b.t = "nan" THEN NaN
    ELSE IF a.t = "inf" \/ b.t = "inf"
         THEN (IF Sign(a) * Sign(b) = 0 THEN NaN ELSE Inf(Sign(a) * Sign(b)))
    ELSE Num(a.n * b.n, a.d * b.d)
JsDiv(a, b) ==
    IF a.t = "nan" \/ b.t = "nan" THEN NaN
    ELSE IF a.t = "inf" THEN (IF b.t = "inf" THEN NaN
                              ELSE Inf(a.s * (IF Sign(b) < 0 THEN -1 ELSE 1)))
    ELSE IF b.t = "inf" THEN Num(0, 1)
    ELSE IF b.n = 0 THEN (IF a.n = 0 THEN NaN ELSE Inf(Sign(a)))
    ELSE Num(a.n * b.d, a.d * b.n)

Zero == Num(0, 1)
One == Num(1, 1)

(***************************************************************************)
(* Characters and strings (sequences of one-character strings).            *)
(***************************************************************************)
LowerChar(c) ==
    CASE c = "A" -> "a" [] c = "B" -> "b" [] c = "C" -> "c" [] c = "D" -> "d"
      [] c = "E" -> "e" [] c = "F" -> "f" [] c = "G" -> "g" [] c = "H" -> "h"
      [] c = "I" -> "i" [] c = "J" -> "j" [] c = "K" -> "k" [] c = "L" -> "l"
      [] c = "M" -> "m" [] c = "N" -> "n" [] c = "O" -> "o" [] c = "P" -> "p"
      [] c = "Q" -> "q" [] c = "R" -> "r" [] c = "S" -> "s" [] c = "T" -> "t"
      [] c = "U" -> "u" [] c = "V" -> "v" [] c = "W" -> "w" [] c = "X" -> "x"
      [] c = "Y" -> "y" [] c = "Z" -> "z"
      [] OTHER -> c
ToLower(s) == [i \in 1..Len(s) |-> LowerChar(s[i])]
StartsWith(s, p) == Len(s) >= Len(p) /\ SubSeq(s, 1, Len(p)) = p

(***************************************************************************)
(* runAudit.js: median and fieldPerformanceProxy.                          *)
(***************************************************************************)
RECURSIVE InsertAsc(_, _)
InsertAsc(x, s) ==
    IF s = <<>> THEN <<x>>
    ELSE IF JsLt(x, Head(s)) THEN <<x>> \o s
    ELSE <<Head(s)>> \o InsertAsc(x, Tail(s))

SortKept(s) == s

\* Array.prototype.sort((x, y) => x - y) on finite numbers
RECURSIVE SortAsc(_)
SortAsc(s) == IF s = <<>> THEN <<>> ELSE InsertAsc(Head(s), SortAsc(Tail(s)))

median(arr) ==
    LET a == SortAsc(SelectSeq(arr, LAMBDA x : IsNumber(x) /\ IsFinite(x)))
        mid == Len(a) \div 2
    IN  IF Len(a) = 0 THEN Null
        ELSE IF Len(a) % 2 = 1 THEN a[mid + 1]
        ELSE JsDiv(JsAdd(a[mid], a[mid + 1]), Num(2, 1))

\* JavaScript truthiness of a modelled value
Truthy(x) ==
    CASE x.t \in {"undefined", "null", "nan"} -> FALSE
      [] x.t = "boolean" -> x.b
      [] x.t = "string" -> x.s # <<>>
      [] x.t = "num" -> x.n # 0
      [] OTHER -> TRUE

Obj(fields) == [t |-> "object", f |-> fields]

\* metric?.distributions || [] ; find the bucket whose min is 0 (or absent)
pickGoodRatio(metric) ==
    LET dist == IF metric.t = "object" THEN metric.f.distributions ELSE <<>>
        idx == {i \in 1..Len(dist) : dist[i].min = 0}
        good == IF idx = {} THEN Undefined
                ELSE dist[CHOOSE i \in idx : \A j \in idx : i <= j].proportion
    IN  IF IsNumber(good) THEN good ELSE Null

RECURSIVE SumSeq(_)
SumSeq(s) == IF s = <<>> THEN Zero ELSE JsAdd(Head(s), SumSeq(Tail(s)))

fieldPerformanceProxy(psiJson) ==
    LET a == IF psiJson.t = "object" THEN psiJson.f.loadingExperience ELSE Undefined
        b == IF psiJson.t = "object" THEN psiJson.f.originLoadingExperience ELSE Undefined
        lx == IF Truthy(a) THEN a ELSE b
        m == IF lx.t = "object" /\ Truthy(lx.f.metrics) THEN lx.f.metrics ELSE Null
    IN  IF m.t # "object" THEN Null
        ELSE LET picked == [k \in 1..3 |-> pickGoodRatio(m.f[k])]
                 vals == SelectSeq(picked, LAMBDA x : ~IsNullish(x))
             IN  IF Len(vals) > 0 THEN JsDiv(SumSeq(vals), Num(Len(vals), 1)) ELSE Null

(***************************************************************************)
(* scoringEngine.js: clamp01, scoreCountRange, scoreRule.                  *)
(***************************************************************************)
clamp01NoUpper(x) ==
    IF IsNumber(x) /\ IsFinite(x) THEN (IF JsLt(x, Zero) THEN Zero ELSE x) ELSE Zero

clamp01(x) ==
    IF IsNumber(x) /\ IsFinite(x)
    THEN (IF JsLt(x, Zero) THEN Zero ELSE IF JsLt(One, x) THEN One ELSE x)
    ELSE Zero

scoreCountRangeNoDecay(raw, idealRange) ==
    IF IsNullish(raw) THEN Zero
    ELSE IF ~(idealRange.t = "array" /\ Len(idealRange.a) = 2) THEN clamp01(raw)
    ELSE IF ~IsNumber(raw) THEN Zero
    ELSE IF JsGe(idealRange.a[1], idealRange.a[2])
         THEN (IF JsGe(raw, idealRange.a[1]) THEN One ELSE Zero)
    ELSE IF JsGe(raw, idealRange.a[1]) /\ JsLe(raw, idealRange.a[2]) THEN One
    ELSE Zero

\* lines 50-60
scoreCountRange(raw, idealRange) ==
    IF IsNullish(raw) THEN Zero
    ELSE IF ~(idealRange.t = "array" /\ Len(idealRange.a) = 2) THEN clamp01(raw)
    ELSE LET min == idealRange.a[1]
             max == idealRange.a[2]
             width == JsSub(max, min)
             dist == IF JsLt(raw, min) THEN JsSub(min, raw) ELSE JsSub(raw, max)
         IN  IF ~IsNumber(raw) THEN Zero
             ELSE IF JsGe(min, max) THEN (IF JsGe(raw, min) THEN One ELSE Zero)
             ELSE IF JsGe(raw, min) /\ JsLe(raw, max) THEN One
             ELSE clamp01(JsSub(One, JsDiv(dist, width)))

\* /^(true|1|yes|y)$/i
TrueWords == { <<"t", "r", "u", "e">>, <<"1">>, <<"y", "e", "s">>, <<"y">> }

\* the lab metric substituted for a lighthouse_score rule without a signal
LabFill(rawValue, t, rule, lh) ==
    IF IsNullish(rawValue) /\ t = "lighthouse_score" /\ lh.t = "object"
    THEN CASE rule.key = "pageSpeedScore" -> lh.f.performance
           [] rule.key = "accessibilityScore" -> lh.f.accessibility
           [] rule.key = "bestPracticesScore" -> lh.f.bestPractices
           [] rule.key = "seoScore" -> lh.f.seo
           [] OTHER -> rawValue
    ELSE rawValue

scoreRule(rawValue, rule, lh) ==
    LET t == IF rule.type = "" THEN "normalized" ELSE rule.type
        v == LabFill(rawValue, t, rule, lh)
    IN  CASE t = "boolean" ->
               IF v.t = "boolean" THEN (IF v.b THEN One ELSE Zero)
               ELSE IF IsNumber(v) THEN (IF JsGe(v, Num(1, 2)) THEN One ELSE Zero)
               ELSE IF v.t = "string" THEN (IF ToLower(v.s) \in TrueWords THEN One ELSE Zero)
               ELSE Zero
          [] t \in {"normalized", "scaled_match", "enum_quality"} -> clamp01(v)
          [] t \in {"normalized_inverse", "numeric_inverse"} -> JsSub(One, clamp01(v))
          [] t = "count_range" -> scoreCountRange(v, rule.idealRange)
          [] t = "lighthouse_score" -> clamp01(v)
          [] OTHER -> clamp01(v)


\* DEFAULT_THRESHOLDS, and sharedThresholds of rubrics/base.js
DEFAULT_THRESHOLDS ==
    << [grade |-> "S", minScore |-> Num(95, 100)],
       [grade |-> "A", minScore |-> Num(85, 100)],
       [grade |-> "B", minScore |-> Num(75, 100)],
       [grade |-> "C", minScore |-> Num(60, 100)],
       [grade |-> "D", minScore |-> Num(40, 100)],
       [grade |-> "F", minScore |-> Num(0, 100)] >>

RECURSIVE GradeFromStrict(_, _, _)
GradeFromStrict(score, th, i) ==
    IF i > Len(th) THEN "F"
    ELSE IF JsLt(th[i].minScore, score) THEN th[i].grade
    ELSE GradeFromStrict(score, th, i + 1)

RECURSIVE GradeFrom(_, _, _)
GradeFrom(score, th, i) ==
    IF i > Len(th) THEN "F"
    ELSE IF JsGe(score, th[i].minScore) THEN th[i].grade
    ELSE GradeFrom(score, th, i + 1)

getGrade(score, thresholds) ==
    GradeFrom(score, IF Len(thresholds) > 0 THEN thresholds ELSE DEFAULT_THRESHOLDS, 1)

\* a rule of a rubric; weight Undefined when the rule carries none
Rule(key, type, weight) ==
    [key |-> key, type |-> type, weight |-> weight, idealRange |-> Undefined]
RangeRule(key, min, max, weight) ==
    [key |-> key, type |-> "count_range", weight |-> weight,
     idealRange |-> [t |-> "array", a |-> <<min, max>>]]

\* rubrics/base.js
BaseRubric ==
    << [name |-> "seo",
        thresholds |-> DEFAULT_THRESHOLDS,
        signals |-> << Rule("indexable", "boolean", Num(15, 100)),
                       Rule("httpsUsage", "boolean", Num(10, 100)),
                       Rule("canonicalPresent", "boolean", Num(8, 100)),
                       Rule("langAttrPresent", "boolean", Num(5, 100)),
                       Rule("robotsTxtPresent", "boolean", Num(5, 100)),
                       Rule("sitemapPresent", "boolean", Num(5, 100)),
                       Rule("metaTagsPresent", "normalized", Num(12, 100)),
                       Rule("altTextCoverage", "normalized", Num(10, 100)),
                       Rule("headerStructure", "enum_quality", Num(10, 100)),
                       Rule("h1Single", "enum_quality", Num(5, 100)),
                       Rule("internalLinks", "normalized", Num(10, 100)),
                       Rule("externalLinks", "normalized", Num(5, 100)),
                       Rule("structuredDataPresent", "boolean", Num(10, 100)) >>,
        weightsBySiteType |->
            [ecommerce |-> [structuredDataPresent |-> Num(14, 100),
                            internalLinks |-> Num(12, 100),
                            altTextCoverage |-> Num(12, 100)],
             b2b |-> [canonicalPresent |-> Num(10, 100), internalLinks |-> Num(11, 100)],
             media |-> [externalLinks |-> Num(8, 100), altTextCoverage |-> Num(12, 100)]]],
       [name |-> "performance",
        thresholds |-> DEFAULT_THRESHOLDS,
        signals |-> << Rule("pageSpeedScore", "lighthouse_score", Num(1, 1)) >>,
        weightsBySiteType |-> << >>],
       [name |-> "accessibility",
        thresholds |-> DEFAULT_THRESHOLDS,
        signals |-> << Rule("accessibilityScore", "lighthouse_score", Num(1, 1)) >>,
        weightsBySiteType |-> << >>],
       [name |-> "content",
        thresholds |-> DEFAULT_THRESHOLDS,
        signals |-> << Rule("titleMatch", "scaled_match", Num(20, 100)),
                       Rule("metaMatch", "scaled_match", Num(15, 100)),
                       Rule("headerMatch", "scaled_match", Num(15, 100)),
                       Rule("semanticScore", "normalized", Num(25, 100)),
                       Rule("densityScore", "normalized", Num(10, 100)),
                       Rule("wordCountNormalized", "normalized", Num(15, 100)),
                       Rule("trustSignalsPresent", "boolean", Num(10, 100)) >>,
        weightsBySiteType |-> << >>],
       [name |-> "ux",
        thresholds |-> DEFAULT_THRESHOLDS,
        signals |-> << RangeRule("sectionCount", Num(4, 1), Num(12, 1), Num(20, 100)),
                       Rule("domDepthRatio", "normalized", Num(20, 100)),
                       Rule("headerFlow", "enum_quality", Num(15, 100)),
                       Rule("ctaClarity", "normalized", Num(25, 100)),
                       Rule("mobileConsistency", "normalized", Num(15, 100)),
                       Rule("brokenLinksRatio", "numeric_inverse", Num(5, 100)) >>,
        weightsBySiteType |-> << >>] >>

\* obj[key] on a modelled map (a function from its own keys): undefined when absent
Get(map, key) == IF key \in DOMAIN map THEN map[key] ELSE Undefined

ruleWeightOverrideFirst(rule, typeWeights) ==
    IF IsNumber(Get(typeWeights, rule.key)) THEN typeWeights[rule.key]
    ELSE IF IsNumber(rule.weight) THEN rule.weight
    ELSE One

\* the weight of one rule: explicit, else the site type's override, else 1
ruleWeight(rule, typeWeights) ==
    IF IsNumber(rule.weight) THEN rule.weight
    ELSE IF IsNumber(Get(typeWeights, rule.key)) THEN typeWeights[rule.key]
    ELSE One

\* one entry of sec.signals
scoredSignal(rule, signals, typeWeights, lh) ==
    LET raw == Get(signals, rule.key)
        score == scoreRule(raw, rule, lh)
        weight == ruleWeight(rule, typeWeights)
    IN  [id |-> rule.key, value |-> raw, score |-> score, weight |-> weight,
         weightedScore |-> JsMul(score, weight),
         type |-> IF rule.type = "" THEN "normalized" ELSE rule.type]

normalizedUnguarded(total, max) == JsDiv(total, max)

\* line 187: sec.max ? (sec.total / sec.max) : 0
normalizedScore(total, max) == IF Truthy(max) THEN JsDiv(total, max) ELSE Zero

\* one section of scoringEngine's result
scoreSection(section, signals, siteType, lh) ==
    LET byType == section.weightsBySiteType
        typeWeights == IF siteType \in DOMAIN byType THEN byType[siteType] ELSE << >>
        sigs == [i \in 1..Len(section.signals) |->
                    scoredSignal(section.signals[i], signals, typeWeights, lh)]
        total == SumSeq([i \in 1..Len(sigs) |-> sigs[i].weightedScore])
        max == SumSeq([i \in 1..Len(sigs) |-> sigs[i].weight])
        normalized == normalizedScore(total, max)
    IN  [total |-> total, max |-> max, weightedScore |-> normalized,
         grade |-> getGrade(normalized, section.thresholds), signals |-> sigs]

\* scoringEngine(signals, siteType, { lighthouse: lh }) over a resolved rubric
scoringEngine(rubric, signals, siteType, lh) ==
    [n \in {rubric[i].name : i \in 1..Len(rubric)} |->
        LET i == CHOOSE j \in 1..Len(rubric) : rubric[j].name = n
        IN  scoreSection(rubric[i], signals, siteType, lh)]


\* rubric `base` with one section's weightsBySiteType[siteType] replaced (the
\* spread { ...(r.<section>.weightsBySiteType || {}), <siteType>: map })
withWeights(rubric, sectionName, type, map) ==
    [i \in 1..Len(rubric) |->
        IF rubric[i].name = sectionName
        THEN [rubric[i] EXCEPT !.weightsBySiteType =
                 (type :> map) @@
                 [k \in (DOMAIN rubric[i].weightsBySiteType) \ {type} |->
                     rubric[i].weightsBySiteType[k]]]
        ELSE rubric[i]]

\* rubrics/media.js
MediaRubric ==
    withWeights(withWeights(withWeights(withWeights(BaseRubric,
        "seo", "media",
            [externalLinks |-> Num(14, 100), altTextCoverage |-> Num(12, 100),
             structuredDataPresent |-> Num(12, 100), canonicalPresent |-> Num(10, 100),
             metaTagsPresent |-> Num(12, 100), indexable |-> Num(12, 100)]),
        "performance", "media",
            [pageSpeedScore |-> Num(88, 100), bestPracticesScore |-> Num(12, 100)]),
        "content", "media",
            [semanticScore |-> Num(30, 100), headerMatch |-> Num(18, 100),
             wordCountNormalized |-> Num(16, 100), trustSignalsPresent |-> Num(10, 100),
             densityScore |-> Num(8, 100)]),
        "ux", "media",
            [domDepthRatio |-> Num(26, 100), mobileConsistency |-> Num(18, 100),
             sectionCount |-> Num(16, 100), headerFlow |-> Num(14, 100),
             ctaClarity |-> Num(16, 100)])

\* rubrics/ecommerce.js
EcommerceRubric ==
    withWeights(withWeights(withWeights(withWeights(BaseRubric,
        "seo", "ecommerce",
            [structuredDataPresent |-> Num(16, 100), internalLinks |-> Num(12, 100),
             altTextCoverage |-> Num(12, 100), indexable |-> Num(14, 100),
             metaTagsPresent |-> Num(12, 100)]),
        "performance", "ecommerce",
            [pageSpeedScore |-> Num(85, 100), bestPracticesScore |-> Num(15, 100)]),
        "content", "ecommerce",
            [trustSignalsPresent |-> Num(18, 100), semanticScore |-> Num(24, 100),
             headerMatch |-> Num(16, 100), wordCountNormalized |-> Num(12, 100),
             densityScore |-> Num(8, 100)]),
        "ux", "ecommerce",
            [ctaClarity |-> Num(34, 100), mobileConsistency |-> Num(20, 100)])

\* rubrics/b2b.js
B2bRubric ==
    withWeights(withWeights(withWeights(withWeights(BaseRubric,
        "seo", "b2b",
            [canonicalPresent |-> Num(12, 100), internalLinks |-> Num(12, 100)]),
        "content", "b2b",
            [semanticScore |-> Num(30, 100), wordCountNormalized |-> Num(20, 100),
             trustSignalsPresent |-> Num(12, 100)]),
        "ux", "b2b",
            [sectionCount |-> Num(24, 100), headerFlow |-> Num(18, 100)]),
        "performance", "b2b",
            [pageSpeedScore |-> Num(60, 100), bestPracticesScore |-> Num(40, 100)])

\* rubrics/index.js getRubric: RUBRIC_MAP[type] || RUBRIC_MAP.base
getRubric(type) ==
    CASE type = "b2b" -> B2bRubric
      [] type = "ecommerce" -> EcommerceRubric
      [] type = "media" -> MediaRubric
      [] OTHER -> BaseRubric

\* scoringEngine.js resolveRubric, the rubric module being the function getRubric
resolveRubric(siteType) == getRubric(siteType)


(***************************************************************************)
(* crawler.js: URLs and the pure helpers.                                  *)
(* A URL is the parsed record [scheme, host, path, search, hash]: host is  *)
(* the list of its dot-separated labels, path the list of the characters   *)
(* of pathname, search and hash the query and the fragment ("" when none). *)
(***************************************************************************)
Url(scheme, host, path, search, hash) ==
    [scheme |-> scheme, host |-> host, path |-> path, search |-> search, hash |-> hash]

RECURSIVE StripTrailingSlashes(_)
\* pathname.replace(/\/+$/, '')
StripTrailingSlashes(path) ==
    IF path # << >> /\ path[Len(path)] = "/"
    THEN StripTrailingSlashes(SubSeq(path, 1, Len(path) - 1))
    ELSE path

\* the pathname setter of a special-scheme URL: the path always starts with "/"
setPathname(path) == IF path = << >> \/ path[1] # "/" THEN <<"/">> \o path ELSE path

canonicalizePathKept(path) == path

canonicalizePath(path) ==
    IF path # <<"/">> THEN setPathname(StripTrailingSlashes(path)) ELSE path

canonicalizeKeepQuery(u) == [u EXCEPT !.hash = "", !.path = canonicalizePath(u.path)]

\* canonicalize(raw) for a raw that parses; null is never returned for one
canonicalize(u) == [u EXCEPT !.hash = "", !.search = "", !.path = canonicalizePath(u.path)]

EndsWith(s, e) == Len(s) >= Len(e) /\ SubSeq(s, Len(s) - Len(e) + 1, Len(s)) = e

AssetExtensions ==
    { <<"j", "p", "g">>, <<"j", "p", "e", "g">>, <<"p", "n", "g">>,
      <<"g", "i", "f">>, <<"w", "e", "b", "p">>, <<"s", "v", "g">>,
      <<"i", "c", "o">>, <<"p", "d", "f">>, <<"z", "i", "p">>,
      <<"r", "a", "r">>, <<"7", "z">>, <<"m", "p", "4">>,
      <<"w", "e", "b", "m">>, <<"m", "p", "3">>, <<"w", "a", "v">>,
      <<"m", "o", "v">>, <<"a", "v", "i">>, <<"d", "o", "c">>,
      <<"d", "o", "c", "x">>, <<"x", "l", "s">>, <<"x", "l", "s", "x">>,
      <<"p", "p", "t">>, <<"p", "p", "t", "x">> }

\* isAsset on a canonical URL: its text ends with the path
isAsset(u) ==
    LET text == ToLower(u.path)
    IN  \E k \in 1..Len(text) :
            text[k] = "." /\ SubSeq(text, k + 1, Len(text)) \in AssetExtensions

\* host.replace(/^www\./i, '')
bareHost(host) == IF Len(host) >= 2 /\ host[1] = "www" THEN Tail(host) ELSE host

buildAllowedHosts(host) == { host, bareHost(host), <<"www">> \o bareHost(host) }

normalizeLinkAnyHost(href, allowedHosts) ==
    IF href.scheme \notin {"http", "https"} THEN Null
    ELSE IF isAsset(canonicalize(href)) THEN Null
    ELSE canonicalize(href)

\* normalizeLink(href, baseUrl, allowedHosts), href absolute; null when rejected
normalizeLink(href, allowedHosts) ==
    IF href.scheme \notin {"http", "https"} THEN Null
    ELSE IF href.host \notin allowedHosts THEN Null
    ELSE IF isAsset(canonicalize(href)) THEN Null
    ELSE canonicalize(href)

\* a line of robots.txt: a User-agent line, a Disallow line or any other line
UaLine(ua) == [k |-> "user-agent", v |-> ua]
DisallowLine(path) == [k |-> "disallow", v |-> path]
OtherLine == [k |-> "other", v |-> << >>]

RECURSIVE parseRobotsFrom(_, _, _)
parseRobotsFrom(lines, i, inStar) ==
    IF i > Len(lines) THEN << >>
    ELSE IF lines[i].k = "user-agent"
         THEN parseRobotsFrom(lines, i + 1, lines[i].v = <<"*">>)
    ELSE IF inStar /\ lines[i].k = "disallow" /\ lines[i].v # << >>
         THEN <<lines[i].v>> \o parseRobotsFrom(lines, i + 1, inStar)
    ELSE parseRobotsFrom(lines, i + 1, inStar)

parseRobots(robotsTxt) == parseRobotsFrom(robotsTxt, 1, FALSE)

RECURSIVE matchesAt(_, _)
\* new RegExp('^' + r).test(s): r's characters are literal but "*", which is ".*"
matchesAt(r, s) ==
    IF r = << >> THEN TRUE
    ELSE IF Head(r) = "*"
         THEN \E k \in 0..Len(s) : matchesAt(Tail(r), SubSeq(s, k + 1, Len(s)))
    ELSE s # << >> /\ Head(s) = Head(r) /\ matchesAt(Tail(r), Tail(s))

pathDisallowed(pathname, disallows) ==
    \E i \in 1..Len(disallows) :
        matchesAt(IF disallows[i][1] # "/" THEN <<"/">> \o disallows[i] ELSE disallows[i],
                  pathname)

RECURSIVE firstSegment(_)
\* pathname.split('/').filter(Boolean)[0] || ''
firstSegment(path) ==
    IF path = << >> THEN << >>
    ELSE IF Head(path) = "/" THEN firstSegment(Tail(path))
    ELSE LET rest == Tail(path)
             stop == {i \in 1..Len(rest) : rest[i] = "/"}
         IN  <<Head(path)>> \o
             (IF stop = {} THEN rest
              ELSE SubSeq(rest, 1, (CHOOSE i \in stop : \A j \in stop : i <= j) - 1))

bucketKey(u) == ToLower(firstSegment(u.path))

dedupeKept(s) == s

RECURSIVE dedupe(_)
\* the insertion order of a Set filled from a list
dedupe(s) ==
    IF s = << >> THEN << >>
    ELSE LET front == dedupe(SubSeq(s, 1, Len(s) - 1))
             x == s[Len(s)]
         IN  IF \E i \in 1..Len(front) : front[i] = x THEN front ELSE Append(front, x)

Range(s) == {s[i] : i \in 1..Len(s)}


(***************************************************************************)
(* The state.                                                              *)
(***************************************************************************)
VARIABLES
    \* ---- runAudit (server/runAudit.js) ----
    targetUrl,          \* the argument, a string
    siteType,           \* the argument
    PSI_BLEND,          \* process.env.PSI_BLEND === '1'
    PSI_API_KEY,        \* whether process.env.PSI_API_KEY is set
    aPc,                \* the stage runAudit is at
    browser,            \* the Puppeteer browser: "undefined", "open", "closed"
    launches,           \* how often puppeteer.launch succeeded in this call
    chrome,             \* the chrome-launcher process: "none", "alive", "killed"
    rounds,             \* runLighthouseMedian's rounds
    pages,
    screenshotBase64,
    lighthouseLab,
    psi,
    structuredSignals,
    perfForScoring,
    scores,
    pending,            \* an exception is propagating out of the try block
    lhPassed,           \* the lhForScoring object handed to scoringEngine
    stageLog,           \* history: the stages entered, each with the corpus size it left
    result,             \* what the call did: none yet, raised, or returned a report
    \* ---- crawlSite (server/crawler.js) ----
    startUrl,           \* the argument
    maxPages,           \* the argument
    browserGiven,       \* whether a browser was passed in
    RESPECT_ROBOTS,     \* process.env.RESPECT_ROBOTS is not 'false'
    robotsTxt,          \* what /robots.txt answers (no lines when the fetch fails)
    sitemapLocs,        \* the <loc> entries the sitemap answers
    cPc,                \* where crawlSite is: "idle", "call", "loop", "done"
    crawlResult,        \* none yet, raised, or the returned list
    ownBrowser,
    crawlBrowser,       \* the browser crawlSite uses: "none", "open", "closed"
    tabOpen,            \* whether crawlSite's page is open
    tab,                \* the document loaded in the page
    disallows,
    allowedHosts,
    visited,
    queued,
    queue,
    results,
    seenBuckets,
    fetchLog,           \* history: per recorded page, how its fetch went
    observedHosts,      \* history: the hosts page.url() showed after a navigation
    \* ---- scoreRule (server/scoringEngine.js) ----
    sPc,                \* "idle", "call" before a call of scoreRule, "scored" after
    rawValue,           \* the arguments of the call
    rule,
    lh,
    score,              \* what the call returned
    \* ---- scoringEngine (server/scoringEngine.js) ----
    ePc,                \* "idle", "call" before a call of scoringEngine, "done" after
    rubricRaw,          \* what resolveRubric answers for the site type
    signals,            \* the arguments of the call
    engineSiteType,
    opts,               \* opts.lighthouse
    out,                \* what the call returned
    \* ---- median (server/runAudit.js) ----
    mPc,                \* "idle", "call", "done"
    arr,                \* the argument
    med,                \* what the call returned
    \* ---- canonicalize (server/crawler.js) ----
    kPc,                \* "idle", "call", "once", "twice"
    raw,                \* the argument, a URL that parses
    canon,              \* canonicalize(raw)
    canonAgain,         \* canonicalize(canonicalize(raw))
    \* ---- navigateWithFallback (server/crawler.js) ----
    nPc,                \* "idle", "goto", "waitForSelector", "waitForNetworkIdle", "done"
    navUrl,             \* the argument url
    attempt,            \* which of the three page.goto calls is next
    gotoLog,            \* history: the page.goto calls made and how each settled
    waitLog,            \* history: the two waits and how each settled
    navOutcome          \* "pending", "returned", "raised"

auditVars ==
    << targetUrl, siteType, PSI_BLEND, PSI_API_KEY, aPc, browser, launches, chrome,
       rounds, pages, screenshotBase64, lighthouseLab, psi, structuredSignals,
       perfForScoring, scores, pending, lhPassed, stageLog, result >>

crawlVars ==
    << startUrl, maxPages, browserGiven, RESPECT_ROBOTS, robotsTxt, sitemapLocs, cPc,
       crawlResult, ownBrowser, crawlBrowser, tabOpen, tab, disallows, allowedHosts,
       visited, queued, queue, results, seenBuckets, fetchLog, observedHosts >>

scoreVars == << sPc, rawValue, rule, lh, score >>

engineVars == << ePc, rubricRaw, signals, engineSiteType, opts, out >>

medianVars == << mPc, arr, med >>

canonVars == << kPc, raw, canon, canonAgain >>

navVars == << nPc, navUrl, attempt, gotoLog, waitLog, navOutcome >>

pureVars == << engineVars, medianVars, canonVars, navVars >>

vars == << auditVars, crawlVars, scoreVars, pureVars >>

(***************************************************************************)
(* runAudit: inputs and what the collaborators can answer.                 *)
(***************************************************************************)
TargetUrls ==
    { <<"h", "t", "t", "p", ":", "/", "/", "a">>,
      <<"H", "T", "T", "P", "S", ":", "/", "/", "a">>,
      <<"h", "t", "t", "p", "s", ":", "/", "/">>,
      <<"h", "t", "t", "p", ":", "/", "a">>,
      <<"f", "t", "p", ":", "/", "/", "a">>,
      <<"a">>,
      << >> }

\* /^https?:\/\//i.test(url)
HttpPrefixes == { <<"h", "t", "t", "p", ":", "/", "/">>, <<"h", "t", "t", "p", "s", ":", "/", "/">> }
isHttpUrl(url) == \E p \in HttpPrefixes : StartsWith(ToLower(url), p)

\* new URL(url) succeeds on an http(s) string: something follows the "//"
parsesAsUrl(url) == \E p \in HttpPrefixes : StartsWith(ToLower(url), p) /\ Len(url) > Len(p)

SiteTypes == {"base", "media"}

\* the category scores one Lighthouse run reports (cat.<x>?.score ?? null)
LabProfiles ==
    { [performance |-> Num(1, 5), accessibility |-> Num(4, 5), seo |-> Num(1, 2),
       bestPractices |-> Null],
      [performance |-> Num(4, 5), accessibility |-> Num(9, 10), seo |-> Num(1, 2),
       bestPractices |-> Num(1, 1)],
      [performance |-> Null, accessibility |-> Null, seo |-> Null, bestPractices |-> Null] }

Bucket(min, proportion) == [min |-> min, proportion |-> proportion]
Metric(good) == Obj([distributions |-> << Bucket(0, good), Bucket(2500, Num(1, 10)) >>])

\* what runPagespeed can answer
PsiAnswers ==
    { Obj([loadingExperience |->
              Obj([metrics |-> Obj(<< Metric(Num(4, 5)), Metric(Num(3, 5)), Metric(Num(1, 1)) >>)]),
           originLoadingExperience |-> Undefined]),
      Obj([loadingExperience |-> Undefined,
           originLoadingExperience |->
              Obj([metrics |-> Obj(<< Metric(Num(1, 2)), Undefined, Metric(Str(<<"1">>)) >>)])]),
      Obj([loadingExperience |-> Undefined, originLoadingExperience |-> Undefined]) }

\* what buildStructuredSignals can answer
SignalMaps ==
    { [pageSpeedScore |-> Num(1, 2), semanticScore |-> Num(3, 2)],
      [indexable |-> Bool(TRUE), metaTagsPresent |-> Num(1, 2),
       sectionCount |-> Num(3, 1), brokenLinksRatio |-> Num(1, 10),
       trustSignalsPresent |-> Str(<<"Y", "e", "s">>)] }

\* the loop bound of runLighthouseMedian
LabRounds == 3

NoResult == [t |-> "none"]

InitAuditVars ==
    /\ targetUrl \in TargetUrls
    /\ siteType \in SiteTypes
    /\ PSI_BLEND \in BOOLEAN
    /\ PSI_API_KEY \in BOOLEAN
    /\ aPc = "call"
    /\ browser = "undefined"
    /\ launches = 0
    /\ chrome = "none"
    /\ rounds = << >>
    /\ pages = << >>
    /\ screenshotBase64 = Null
    /\ lighthouseLab = << >>
    /\ psi = Null
    /\ structuredSignals = << >>
    /\ perfForScoring = Null
    /\ scores = << >>
    /\ pending = FALSE
    /\ lhPassed = Null
    /\ stageLog = << >>
    /\ result = NoResult

(***************************************************************************)
(* runAudit, stage by stage.                                               *)
(***************************************************************************)
\* lines 209-211: the only check made before the try block
Validate ==
    /\ aPc = "call"
    /\ IF isHttpUrl(targetUrl)
       THEN /\ aPc' = "launch"
            /\ UNCHANGED result
       ELSE /\ aPc' = "done"
            /\ result' = [t |-> "raised", error |-> "Invalid URL. Use http(s)://"]
    /\ UNCHANGED << crawlVars, scoreVars, pureVars, lhPassed, stageLog, targetUrl, siteType, PSI_BLEND, PSI_API_KEY, browser, launches, chrome,
                    rounds, pages, screenshotBase64, lighthouseLab, psi,
                    structuredSignals, perfForScoring, scores, pending >>

\* lines 221-235: puppeteer.launch, inside try/finally with no catch
LaunchSucceeds ==
    /\ aPc' = "crawl"
    /\ browser' = "open"
    /\ launches' = launches + 1
    /\ UNCHANGED pending

LaunchFails ==
    /\ aPc' = "finally"
    /\ pending' = TRUE
    /\ UNCHANGED << browser, launches >>

Launch ==
    /\ aPc = "launch"
    /\ \/ LaunchSucceeds
       \/ LaunchFails
    /\ UNCHANGED << crawlVars, scoreVars, pureVars, lhPassed, stageLog, targetUrl, siteType, PSI_BLEND, PSI_API_KEY, chrome, rounds, pages,
                    screenshotBase64, lighthouseLab, psi, structuredSignals,
                    perfForScoring, scores, result >>

\* a stage of the try block was entered and left the corpus `corpus`
entered(stage, corpus) == [stage |-> stage, corpus |-> Len(corpus)]

CrawledPage(i) == [url |-> i, html |-> "html", links |-> "counted"]
FallbackPage == [url |-> 0, html |-> "html", links |-> "zero"]

\* lines 238-243: crawlSite(targetUrl, MAX_PAGES, browser) raises or returns its pages
CrawlStage ==
    /\ aPc = "crawl"
    /\ \/ pages' = << >>
       \/ /\ parsesAsUrl(targetUrl)
          /\ \E n \in 0..MaxCorpus : pages' = [i \in 1..n |-> CrawledPage(i)]
    /\ aPc' = "fallback"
    /\ stageLog' = Append(stageLog, entered("crawl", pages'))
    /\ UNCHANGED << crawlVars, scoreVars, pureVars, lhPassed, targetUrl, siteType, PSI_BLEND, PSI_API_KEY, browser, launches, chrome,
                    rounds, screenshotBase64, lighthouseLab, psi, structuredSignals,
                    perfForScoring, scores, pending, result >>

FallbackAlways ==
    /\ aPc = "fallback"
    /\ \/ /\ parsesAsUrl(targetUrl)
          /\ pages' = << FallbackPage >>
       \/ UNCHANGED pages
    /\ stageLog' = Append(stageLog, entered("fallback", pages'))
    /\ aPc' = "screenshot"
    /\ UNCHANGED << crawlVars, scoreVars, pureVars, lhPassed, targetUrl, siteType, PSI_BLEND,
                    PSI_API_KEY, browser, launches, chrome, rounds, screenshotBase64,
                    lighthouseLab, psi, structuredSignals, perfForScoring, scores, pending,
                    result >>

\* lines 246-259: the homepage fallback, only when the corpus is empty
Fallback ==
    /\ aPc = "fallback"
    /\ IF Len(pages) = 0
       THEN /\ \/ /\ parsesAsUrl(targetUrl)
                  /\ pages' = << FallbackPage >>
               \/ UNCHANGED pages
            /\ stageLog' = Append(stageLog, entered("fallback", pages'))
       ELSE UNCHANGED << pages, stageLog >>
    /\ aPc' = "screenshot"
    /\ UNCHANGED << crawlVars, scoreVars, pureVars, lhPassed, targetUrl, siteType, PSI_BLEND, PSI_API_KEY, browser, launches, chrome,
                    rounds, screenshotBase64, lighthouseLab, psi, structuredSignals,
                    perfForScoring, scores, pending, result >>

\* lines 262-274
Screenshot ==
    /\ aPc = "screenshot"
    /\ \/ /\ parsesAsUrl(targetUrl)
          /\ screenshotBase64' = Str(<<"i", "m", "g">>)
       \/ UNCHANGED screenshotBase64
    /\ aPc' = "lab"
    /\ stageLog' = Append(stageLog, entered("screenshot", pages))
    /\ UNCHANGED << crawlVars, scoreVars, pureVars, lhPassed, targetUrl, siteType, PSI_BLEND, PSI_API_KEY, browser, launches, chrome,
                    rounds, pages, lighthouseLab, psi, structuredSignals,
                    perfForScoring, scores, pending, result >>


\* lines 113-122: launchChrome, before runLighthouseMedian's try block
LabLaunch ==
    /\ aPc = "lab"
    /\ \/ /\ chrome' = "alive"
          /\ aPc' = "labRun"
          /\ UNCHANGED lighthouseLab
       \/ /\ lighthouseLab' = << >>
          /\ aPc' = "psi"
          /\ UNCHANGED chrome
    /\ stageLog' = Append(stageLog, entered("lab", pages))
    /\ UNCHANGED << crawlVars, scoreVars, pureVars, lhPassed, targetUrl, siteType, PSI_BLEND, PSI_API_KEY, browser, launches,
                    rounds, pages, screenshotBase64, psi, structuredSignals,
                    perfForScoring, scores, pending, result >>

killChromeSkipped == UNCHANGED chrome

\* lines 183-185: finally { try { await chrome.kill(); } catch {} }
killChrome == chrome' = "killed"

\* lines 179-182 and 279-282: a failed run is rethrown, and runAudit drops the stage
LabRunFails ==
    /\ killChrome
    /\ lighthouseLab' = << >>
    /\ aPc' = "psi"
    /\ UNCHANGED rounds

\* lines 137-154: the import of lighthouse and one round of the loop
LabRun ==
    /\ aPc = "labRun"
    /\ Len(rounds) < LabRounds
    /\ \/ /\ \E r \in LabProfiles : rounds' = Append(rounds, r)
          /\ UNCHANGED << chrome, lighthouseLab, aPc >>
       \/ LabRunFails
    /\ UNCHANGED << crawlVars, scoreVars, pureVars, lhPassed, stageLog, targetUrl, siteType, PSI_BLEND, PSI_API_KEY, browser, launches,
                    pages, screenshotBase64, psi, structuredSignals,
                    perfForScoring, scores, pending, result >>

\* lines 157-162: the per-category medians
medians(rs) ==
    [performance |-> median([i \in 1..Len(rs) |-> rs[i].performance]),
     accessibility |-> median([i \in 1..Len(rs) |-> rs[i].accessibility]),
     seo |-> median([i \in 1..Len(rs) |-> rs[i].seo]),
     bestPractices |-> median([i \in 1..Len(rs) |-> rs[i].bestPractices])]

\* lines 156-185 and 278: the medians are returned, the process killed on the way out
LabFinish ==
    /\ aPc = "labRun"
    /\ Len(rounds) = LabRounds
    /\ lighthouseLab' = medians(rounds)
    /\ killChrome
    /\ aPc' = "psi"
    /\ UNCHANGED << crawlVars, scoreVars, pureVars, lhPassed, stageLog, targetUrl, siteType, PSI_BLEND, PSI_API_KEY, browser, launches,
                    rounds, pages, screenshotBase64, psi, structuredSignals,
                    perfForScoring, scores, pending, result >>

\* lines 189-201 and 285-289: fetchPSI resolves to null or to the parsed answer
PsiStage ==
    /\ aPc = "psi"
    /\ IF PSI_API_KEY
       THEN psi' \in PsiAnswers \cup {Null}
       ELSE psi' = Null
    /\ aPc' = "signals"
    /\ stageLog' = Append(stageLog, entered("psi", pages))
    /\ UNCHANGED << crawlVars, scoreVars, pureVars, lhPassed, targetUrl, siteType, PSI_BLEND, PSI_API_KEY, browser, launches, chrome,
                    rounds, pages, screenshotBase64, lighthouseLab, structuredSignals,
                    perfForScoring, scores, pending, result >>

SignalsFailUncaught ==
    /\ UNCHANGED structuredSignals
    /\ aPc' = "finally"
    /\ pending' = TRUE

\* lines 295-298: catch (e) { structuredSignals = {} }
SignalsFail ==
    /\ structuredSignals' = << >>
    /\ aPc' = "scoring"
    /\ UNCHANGED pending

\* lines 292-298
SignalsStage ==
    /\ aPc = "signals"
    /\ \/ /\ structuredSignals' \in SignalMaps
          /\ aPc' = "scoring"
          /\ UNCHANGED pending
       \/ SignalsFail
    /\ stageLog' = Append(stageLog, entered("signals", pages))
    /\ UNCHANGED << crawlVars, scoreVars, pureVars, lhPassed, targetUrl, siteType, PSI_BLEND, PSI_API_KEY, browser, launches, chrome,
                    rounds, pages, screenshotBase64, lighthouseLab, psi,
                    perfForScoring, scores, result >>

\* x ?? null
orNull(x) == IF IsNullish(x) THEN Null ELSE x

blendFieldAlone(lab, psiJson, enabled) ==
    LET perf == orNull(Get(lab, "performance"))
        fieldProxy == fieldPerformanceProxy(psiJson)
    IN  IF enabled /\ Truthy(psiJson) /\ ~IsNullish(fieldProxy)
        THEN (IF IsNullish(perf) THEN fieldProxy
              ELSE JsAdd(JsMul(Num(7, 10), perf), JsMul(Num(3, 10), fieldProxy)))
        ELSE perf

\* lines 301-307
blend(lab, psiJson, enabled) ==
    LET perf == orNull(Get(lab, "performance"))
        fieldProxy == fieldPerformanceProxy(psiJson)
    IN  IF enabled /\ Truthy(psiJson) /\ ~IsNullish(fieldProxy) /\ ~IsNullish(perf)
        THEN JsAdd(JsMul(Num(7, 10), perf), JsMul(Num(3, 10), fieldProxy))
        ELSE perf

\* lines 311-316
lhForScoring(perf, lab) ==
    Obj([performance |-> IF ~IsNullish(perf) THEN perf
                         ELSE orNull(Get(lab, "performance")),
         accessibility |-> orNull(Get(lab, "accessibility")),
         bestPractices |-> orNull(Get(lab, "bestPractices")),
         seo |-> orNull(Get(lab, "seo"))])

\* lines 300-321: the blend and the scoring; a throwing engine leaves scores = {}
ScoringStage ==
    /\ aPc = "scoring"
    /\ perfForScoring' = blend(lighthouseLab, psi, PSI_BLEND)
    /\ lhPassed' = lhForScoring(perfForScoring', lighthouseLab)
    /\ \/ scores' = scoringEngine(resolveRubric(siteType), structuredSignals, siteType,
                                  lhPassed')
       \/ scores' = << >>
    /\ aPc' = "finally"
    /\ stageLog' = Append(stageLog, entered("scoring", pages))
    /\ UNCHANGED << crawlVars, scoreVars, pureVars, targetUrl, siteType, PSI_BLEND, PSI_API_KEY, browser, launches, chrome,
                    rounds, pages, screenshotBase64, lighthouseLab, psi,
                    structuredSignals, pending, result >>

closeSkipped == UNCHANGED browser

\* line 323: if (browser) { try { await browser.close(); } catch {} }
closeBrowser == browser' = IF browser = "open" THEN "closed" ELSE browser

\* lines 322-324: the finally block; a pending exception leaves runAudit after it
Finally ==
    /\ aPc = "finally"
    /\ closeBrowser
    /\ IF pending
       THEN /\ aPc' = "done"
            /\ result' = [t |-> "raised", error |-> "launch failed"]
       ELSE /\ aPc' = "return"
            /\ UNCHANGED result
    /\ UNCHANGED << crawlVars, scoreVars, pureVars, lhPassed, stageLog, targetUrl, siteType, PSI_BLEND, PSI_API_KEY, launches, chrome,
                    rounds, pages, screenshotBase64, lighthouseLab, psi,
                    structuredSignals, perfForScoring, scores, pending >>

\* lines 327-343
report ==
    [url |-> targetUrl,
     siteType |-> siteType,
     structuredSignals |-> structuredSignals,
     scores |-> scores,
     lighthouse |-> [performance |-> orNull(Get(lighthouseLab, "performance")),
                     accessibility |-> orNull(Get(lighthouseLab, "accessibility")),
                     seo |-> orNull(Get(lighthouseLab, "seo")),
                     bestPractices |-> orNull(Get(lighthouseLab, "bestPractices")),
                     fieldProxy |-> orNull(fieldPerformanceProxy(psi))],
     screenshotBase64 |-> screenshotBase64]

Return ==
    /\ aPc = "return"
    /\ result' = [t |-> "returned", report |-> report]
    /\ aPc' = "done"
    /\ UNCHANGED << crawlVars, scoreVars, pureVars, lhPassed, stageLog, targetUrl, siteType, PSI_BLEND, PSI_API_KEY, browser, launches, chrome,
                    rounds, pages, screenshotBase64, lighthouseLab, psi,
                    structuredSignals, perfForScoring, scores, pending >>

IdleAudit ==
    /\ targetUrl = << >>
    /\ siteType = "base"
    /\ PSI_BLEND = FALSE
    /\ PSI_API_KEY = FALSE
    /\ aPc = "idle"
    /\ browser = "undefined"
    /\ launches = 0
    /\ chrome = "none"
    /\ rounds = << >>
    /\ pages = << >>
    /\ screenshotBase64 = Null
    /\ lighthouseLab = << >>
    /\ psi = Null
    /\ structuredSignals = << >>
    /\ perfForScoring = Null
    /\ scores = << >>
    /\ pending = FALSE
    /\ lhPassed = Null
    /\ stageLog = << >>
    /\ result = NoResult

NextAudit ==
    \/ Validate
    \/ Launch
    \/ CrawlStage
    \/ Fallback
    \/ Screenshot
    \/ LabLaunch
    \/ LabRun
    \/ LabFinish
    \/ PsiStage
    \/ SignalsStage
    \/ ScoringStage
    \/ Finally
    \/ Return


(***************************************************************************)
(* crawlSite: the site crawled and the inputs.                             *)
(***************************************************************************)
HostA == <<"a", "com">>
HostWwwA == <<"www", "a", "com">>
HostB == <<"b", "net">>
HostC == <<"c", "org">>

UrlRoot == Url("https", HostA, <<"/">>, "", "")
UrlP == Url("https", HostA, <<"/", "p">>, "", "")
UrlPVariant == Url("https", HostA, <<"/", "p", "/">>, "?q=1", "#y")
UrlPX == Url("https", HostA, <<"/", "p", "/", "x">>, "", "")
UrlWwwQ == Url("https", HostWwwA, <<"/", "q">>, "", "")
UrlUpperQ == Url("https", HostA, <<"/", "Q", "/", "/">>, "", "")
UrlRedirect == Url("https", HostA, <<"/", "r">>, "", "")
UrlRedirectVariant == Url("https", HostA, <<"/", "r", "/">>, "?x", "")
UrlBW == Url("https", HostB, <<"/", "w">>, "?s", "")
UrlBWK == Url("https", HostB, <<"/", "w", "/", "k">>, "", "")
UrlExternal == Url("https", HostC, <<"/", "z">>, "", "")
UrlPdf == Url("https", HostA, <<"/", "f", ".", "P", "D", "F">>, "", "")
UrlMail == Url("mailto", << >>, <<"m">>, "", "")
UrlRootHash == Url("https", HostA, <<"/">>, "", "#top")

\* the anchors of the document served for a canonical URL
SiteLinks(u) ==
    CASE u = UrlRoot -> << UrlP, UrlPVariant, UrlWwwQ, UrlRedirect, UrlPdf, UrlMail, UrlExternal >>
      [] u = UrlP -> << UrlPX, UrlRootHash, UrlUpperQ >>
      [] u = UrlPX -> << UrlPVariant >>
      [] u = UrlWwwQ -> << UrlUpperQ, UrlPX >>
      [] u = UrlRedirect -> << UrlBW, UrlExternal >>
      [] u = canonicalize(UrlBW) -> << UrlBWK, UrlRoot >>
      [] OTHER -> << >>

\* the host a navigation to u ends on, after the site's redirects
SiteFinalHost(u) == IF u = UrlRedirect THEN HostB ELSE u.host

\* the document of a freshly opened page, and Chromium's page for a failed load
BlankDoc ==
    [url |-> Url("about", <<"">>, <<"b", "l", "a", "n", "k">>, "", ""), hrefs |-> << >>]
ErrorDoc ==
    [url |-> Url("chrome-error", <<"chromewebdata">>, <<"/">>, "", ""), hrefs |-> << >>]
SiteDoc(u) == [url |-> [u EXCEPT !.host = SiteFinalHost(u)], hrefs |-> SiteLinks(u)]

StartUrls ==
    { UrlRoot,
      UrlRedirectVariant,
      Url("ftp", HostA, <<"/">>, "", ""),
      Url("https", << >>, << >>, "", "") }

RobotsFiles ==
    { << >>,
      << UaLine(<<"*">>), DisallowLine(<<"/", "p">>), OtherLine, DisallowLine(<<"/", "r">>) >>,
      << UaLine(<<"b", "o", "t">>), DisallowLine(<<"/">>),
         UaLine(<<"*">>), DisallowLine(<< >>), DisallowLine(<<"*", "q">>) >> }

\* a sitemap of nine pages /s1 .. /s9 that link nowhere
SeedDigits == << "1", "2", "3", "4", "5", "6", "7", "8", "9" >>
LongSitemap ==
    [i \in 1..Len(SeedDigits) |-> Url("https", HostA, <<"/", "s", SeedDigits[i]>>, "", "")]

Sitemaps ==
    { << >>,
      << UrlPX, UrlPVariant, UrlExternal, UrlP >>,
      << UrlWwwQ, UrlRoot >>,
      LongSitemap }

\* SITEMAP_SEED_LIMIT with no environment override
SITEMAP_SEED_LIMIT == 10
\* the slack past maxPages at which enqueuing stops
EnqueueSlack == 8

\* fetchSitemapUrls: the first `limit` distinct <loc> entries
fetchSitemapUrls(locs, limit) ==
    LET all == dedupe(locs) IN SubSeq(all, 1, IF Len(all) < limit THEN Len(all) ELSE limit)

EmptyHtml == [t |-> "empty"]
ZeroLinks == [internal |-> 0, external |-> 0, total |-> 0]

\* extractLinks and the in-page count skip these hrefs
skippedHref(h) == h.scheme \in {"mailto", "tel", "javascript"}

\* page.content() of the loaded document
contentOf(doc) == [t |-> "html", of |-> doc.url]

\* lines 327-342: the counts taken inside the loaded document
linksBreakdownOf(doc) ==
    LET counted == SelectSeq(doc.hrefs, LAMBDA h : ~skippedHref(h))
        internal == Len(SelectSeq(counted, LAMBDA h : h.host = doc.url.host))
    IN  [internal |-> internal, external |-> Len(counted) - internal, total |-> Len(counted)]

\* extractLinks(page, current, allowedHosts): the normalized links, in document order
extractLinks(hrefs, hosts) ==
    LET kept == SelectSeq(hrefs, LAMBDA h : ~skippedHref(h) /\ normalizeLink(h, hosts) # Null)
    IN  dedupe([i \in 1..Len(kept) |-> normalizeLink(kept[i], hosts)])

partitionLinksDocumentOrder(links, buckets) ==
    [fresh |-> links, common |-> << >>]

\* lines 354-362: links of a bucket not seen yet are "fresh", the others "common"
partitionLinks(links, buckets) ==
    [fresh |-> SelectSeq(links, LAMBDA n : bucketKey(n) \notin buckets),
     common |-> SelectSeq(links, LAMBDA n : bucketKey(n) \in buckets)]

RECURSIVE pushUntil(_, _, _, _)
\* for (const n of list) { if (results.length + queue.length >= limit) break; queue.push(n) }
pushUntil(q, list, nResults, limit) ==
    IF list = << >> \/ nResults + Len(q) >= limit THEN q
    ELSE pushUntil(Append(q, Head(list)), Tail(list), nResults, limit)

InitCrawlVars ==
    /\ startUrl \in StartUrls
    /\ maxPages \in 0..MaxMaxPages
    /\ browserGiven \in BOOLEAN
    /\ RESPECT_ROBOTS \in BOOLEAN
    /\ robotsTxt \in (IF RESPECT_ROBOTS THEN RobotsFiles ELSE {<< >>})
    \* the nine-page sitemap is crawled with the page budgets it outgrows
    /\ sitemapLocs \in (IF maxPages + EnqueueSlack < 1 + Len(LongSitemap)
                          THEN Sitemaps ELSE Sitemaps \ {LongSitemap})
    /\ cPc = "call"
    /\ crawlResult = NoResult
    /\ ownBrowser = FALSE
    /\ crawlBrowser = IF browserGiven THEN "open" ELSE "none"
    /\ tabOpen = FALSE
    /\ tab = BlankDoc
    /\ disallows = << >>
    /\ allowedHosts = {}
    /\ visited = {}
    /\ queued = {}
    /\ queue = << >>
    /\ results = << >>
    /\ seenBuckets = {}
    /\ fetchLog = << >>
    /\ observedHosts = {}

IdleCrawl ==
    /\ startUrl = UrlRoot
    /\ maxPages = 0
    /\ browserGiven = FALSE
    /\ RESPECT_ROBOTS = FALSE
    /\ robotsTxt = << >>
    /\ sitemapLocs = << >>
    /\ cPc = "idle"
    /\ crawlResult = NoResult
    /\ ownBrowser = FALSE
    /\ crawlBrowser = "none"
    /\ tabOpen = FALSE
    /\ tab = BlankDoc
    /\ disallows = << >>
    /\ allowedHosts = {}
    /\ visited = {}
    /\ queued = {}
    /\ queue = << >>
    /\ results = << >>
    /\ seenBuckets = {}
    /\ fetchLog = << >>
    /\ observedHosts = {}

(***************************************************************************)
(* scoreRule: the rules and raw values it is called with.                  *)
(***************************************************************************)
RuleKinds ==
    { "boolean", "normalized", "normalized_inverse", "scaled_match", "count_range",
      "numeric_inverse", "enum_quality", "lighthouse_score", "sentiment", "" }

\* rule.idealRange: absent, well-formed, degenerate, reversed, unbounded, wrong length
IdealRanges ==
    { Undefined,
      [t |-> "array", a |-> << Num(4, 1), Num(12, 1) >>],
      [t |-> "array", a |-> << Num(5, 1), Num(5, 1) >>],
      [t |-> "array", a |-> << Num(7, 1), Num(3, 1) >>],
      [t |-> "array", a |-> << Zero, Inf(1) >>],
      [t |-> "array", a |-> << NaN, Num(3, 1) >>],
      [t |-> "array", a |-> << Num(4, 1) >>] }

RuleKeys == { "pageSpeedScore", "seoScore", "titleLength" }

ScoreRules ==
    { [key |-> k, type |-> t, weight |-> One, idealRange |-> r] :
        k \in RuleKeys, t \in RuleKinds, r \in IdealRanges }

RawValues ==
    { Undefined, Null, Bool(TRUE), Bool(FALSE),
      Str(<<"Y", "e", "s">>), Str(<<"n", "o">>), Str(<<"1">>), Str(<< >>),
      Num(-4, 1), Num(-1, 1), Zero, Num(1, 4), Num(1, 2), One, Num(3, 2), Num(2, 1),
      Num(4, 1), Num(8, 1), Num(12, 1), Num(14, 1), Num(20, 1), Num(100, 1),
      NaN, Inf(1), Inf(-1) }

\* the lab scores handed to scoreRule: none, or an object of metrics
LabValues ==
    { Null,
      Obj([performance |-> Num(4, 5), accessibility |-> Null, bestPractices |-> Null,
           seo |-> Num(3, 2)]),
      Obj([performance |-> NaN, accessibility |-> Null, bestPractices |-> Null,
           seo |-> Undefined]) }

IdleScore ==
    /\ sPc = "idle"
    /\ rawValue = Undefined
    /\ rule = Rule("titleLength", "", One)
    /\ lh = Null
    /\ score = Undefined

InitScoreVars ==
    /\ sPc = "call"
    /\ rawValue \in RawValues
    /\ rule \in ScoreRules
    /\ lh \in LabValues
    /\ score = Undefined

\* scoreRule(rawValue, rule, lh) is called and returns
ScoreRuleCall ==
    /\ sPc = "call"
    /\ score' = scoreRule(rawValue, rule, lh)
    /\ sPc' = "scored"
    /\ UNCHANGED << auditVars, crawlVars, pureVars, rawValue, rule, lh >>

NextScore == ScoreRuleCall

(***************************************************************************)
(* scoringEngine: the rubrics, signal maps and lab scores it is called     *)
(* with.                                                                   *)
(***************************************************************************)
\* a rubric module other than the shipped ones: rules with and without an
\* explicit weight, overrides, zero weights, a section without rules
TestThresholds ==
    << [grade |-> "P", minScore |-> Num(1, 2)], [grade |-> "Q", minScore |-> Zero] >>

TestRubric ==
    << [name |-> "scenario",
        thresholds |-> DEFAULT_THRESHOLDS,
        signals |-> << Rule("r1", "normalized", One), Rule("r2", "normalized", One) >>,
        weightsBySiteType |-> << >>],
       [name |-> "weights",
        thresholds |-> DEFAULT_THRESHOLDS,
        signals |-> << Rule("explicit", "normalized", Num(2, 1)),
                       Rule("overridden", "normalized", Undefined),
                       Rule("plain", "boolean", Undefined) >>,
        weightsBySiteType |->
            [media |-> [explicit |-> Num(5, 1), overridden |-> Num(3, 1)],
             b2b |-> [plain |-> Num(4, 1)]]],
       [name |-> "zero",
        thresholds |-> TestThresholds,
        signals |-> << Rule("z1", "normalized", Zero), Rule("z2", "boolean", Zero) >>,
        weightsBySiteType |-> << >>],
       [name |-> "empty",
        thresholds |-> DEFAULT_THRESHOLDS,
        signals |-> << >>,
        weightsBySiteType |-> << >>],
       [name |-> "inverse",
        thresholds |-> TestThresholds,
        signals |-> << Rule("n1", "normalized_inverse", One),
                       RangeRule("n2", Num(4, 1), Num(12, 1), Undefined) >>,
        weightsBySiteType |-> << >>] >>

EngineSiteTypes == { "base", "b2b", "ecommerce", "media", "blog" }

EngineSignalMaps ==
    SignalMaps \cup
    { << >>,
      [r1 |-> One, r2 |-> Num(1, 2), explicit |-> One, overridden |-> Num(1, 2),
       plain |-> Bool(TRUE), z1 |-> One, n1 |-> Num(1, 4), n2 |-> Num(14, 1)],
      [r1 |-> Num(3, 2), r2 |-> NaN, explicit |-> Zero, overridden |-> One,
       plain |-> Null, z2 |-> Bool(TRUE), n1 |-> Inf(1), n2 |-> Num(8, 1),
       indexable |-> Bool(TRUE), structuredDataPresent |-> Bool(TRUE),
       externalLinks |-> Num(1, 2), pageSpeedScore |-> Num(9, 10)] }

IdleEngine ==
    /\ ePc = "idle"
    /\ rubricRaw = << >>
    /\ signals = << >>
    /\ engineSiteType = "base"
    /\ opts = Null
    /\ out = << >>

InitEngineVars ==
    /\ ePc = "call"
    /\ engineSiteType \in EngineSiteTypes
    /\ rubricRaw \in { resolveRubric(engineSiteType), TestRubric }
    /\ signals \in EngineSignalMaps
    /\ opts \in LabValues
    /\ out = << >>

\* scoringEngine(signals, siteType, { lighthouse: opts }) is called and returns
EngineCall ==
    /\ ePc = "call"
    /\ out' = scoringEngine(rubricRaw, signals, engineSiteType, opts)
    /\ ePc' = "done"
    /\ UNCHANGED << auditVars, crawlVars, scoreVars, medianVars, canonVars, navVars,
                    rubricRaw, signals, engineSiteType, opts >>

NextEngine == EngineCall

(***************************************************************************)
(* median: the samples it is called with.                                  *)
(***************************************************************************)
Samples ==
    { Null, Undefined, NaN, Inf(1), Inf(-1), Str(<<"1">>),
      Num(1, 10), Num(1, 5), Num(1, 2), Num(4, 5), Num(9, 10) }

SampleLists == UNION { [1..n -> Samples] : n \in 0..MaxSamples }

IdleMedian ==
    /\ mPc = "idle"
    /\ arr = << >>
    /\ med = Undefined

InitMedianVars ==
    /\ mPc = "call"
    /\ arr \in SampleLists
    /\ med = Undefined

\* median(arr) is called and returns
MedianCall ==
    /\ mPc = "call"
    /\ med' = median(arr)
    /\ mPc' = "done"
    /\ UNCHANGED << auditVars, crawlVars, scoreVars, engineVars, canonVars, navVars, arr >>

NextMedian == MedianCall

(***************************************************************************)
(* canonicalize: the URLs it is called with.                               *)
(***************************************************************************)
RawPaths ==
    { <<"/">>, <<"/", "x">>, <<"/", "x", "/">>, <<"/", "x", "/", "/">>,
      <<"/", "/">>, <<"/", "x", "/", "y">>, <<"/", "x", "/", "y", "/">>,
      <<"/", "X">> }

RawUrls ==
    { Url(scheme, host, path, search, hash) :
        scheme \in {"http", "https"}, host \in {HostA, HostWwwA}, path \in RawPaths,
        search \in {"", "?q=1"}, hash \in {"", "#y"} }

IdleCanon ==
    /\ kPc = "idle"
    /\ raw = UrlRoot
    /\ canon = Null
    /\ canonAgain = Null

InitCanonVars ==
    /\ kPc = "call"
    /\ raw \in RawUrls
    /\ canon = Null
    /\ canonAgain = Null

\* canonicalize(raw) is called and returns
CanonCall ==
    /\ kPc = "call"
    /\ canon' = canonicalize(raw)
    /\ kPc' = "once"
    /\ UNCHANGED << auditVars, crawlVars, scoreVars, engineVars, medianVars, navVars,
                    raw, canonAgain >>

\* canonicalize is called on its own result
CanonAgainCall ==
    /\ kPc = "once"
    /\ canonAgain' = canonicalize(canon)
    /\ kPc' = "twice"
    /\ UNCHANGED << auditVars, crawlVars, scoreVars, engineVars, medianVars, navVars,
                    raw, canon >>

NextCanon == CanonCall \/ CanonAgainCall

(***************************************************************************)
(* navigateWithFallback(page, url): three page.goto calls nested in        *)
(* try/catch, then two waits whose rejections are dropped.                 *)
(***************************************************************************)
\* lines 197, 200, 202: the waitUntil option of the three page.goto calls
\* ("default" is the call without the option)
WaitStrategies == << "domcontentloaded", "load", "default" >>

\* how a page.goto settles: resolved, or rejected by the timeout or a network error
GotoOutcomes == { "ok", "timeout", "net error" }

NavUrls == { UrlRoot, UrlP, UrlExternal }

\* lines 198-203: the catch of the first and of the second call go on to the
\* next call; .catch(() => {}) drops the rejection of the third
afterRejection(i) == IF i < Len(WaitStrategies) THEN "next goto" ELSE "dropped"

afterGotoKeepsTrying(i, outcome) == afterRejection(i)

\* lines 196-203: a resolved page.goto leaves the nested try blocks
afterGoto(i, outcome) == IF outcome = "ok" THEN "resolved" ELSE afterRejection(i)

IdleNav ==
    /\ nPc = "idle"
    /\ navUrl = UrlRoot
    /\ attempt = 1
    /\ gotoLog = << >>
    /\ waitLog = << >>
    /\ navOutcome = "pending"

InitNavVars ==
    /\ nPc = "goto"
    /\ navUrl \in NavUrls
    /\ attempt = 1
    /\ gotoLog = << >>
    /\ waitLog = << >>
    /\ navOutcome = "pending"

\* lines 196-203: one page.goto call settles
NavGoto ==
    /\ nPc = "goto"
    /\ \E outcome \in GotoOutcomes :
          LET step == afterGoto(attempt, outcome)
          IN  /\ gotoLog' = Append(gotoLog, [url |-> navUrl,
                                             waitUntil |-> WaitStrategies[attempt],
                                             outcome |-> outcome])
              /\ attempt' = IF step = "next goto" /\ attempt < Len(WaitStrategies)
                            THEN attempt + 1 ELSE attempt
              /\ nPc' = IF step = "next goto" /\ attempt < Len(WaitStrategies)
                        THEN "goto" ELSE "waitForSelector"
    /\ UNCHANGED << auditVars, crawlVars, scoreVars, engineVars, medianVars, canonVars,
                    navUrl, waitLog, navOutcome >>

\* line 205: page.waitForSelector('body').catch(() => {})
NavWaitForSelector ==
    /\ nPc = "waitForSelector"
    /\ \E outcome \in { "found", "timeout" } :
          waitLog' = Append(waitLog, [wait |-> "body", outcome |-> outcome])
    /\ nPc' = "waitForNetworkIdle"
    /\ UNCHANGED << auditVars, crawlVars, scoreVars, engineVars, medianVars, canonVars,
                    navUrl, attempt, gotoLog, navOutcome >>

\* lines 206-207: page.waitForNetworkIdle(...).catch(() => {}), then the
\* function returns
NavWaitForNetworkIdle ==
    /\ nPc = "waitForNetworkIdle"
    /\ \E outcome \in { "idle", "timeout" } :
          waitLog' = Append(waitLog, [wait |-> "network idle", outcome |-> outcome])
    /\ navOutcome' = "returned"
    /\ nPc' = "done"
    /\ UNCHANGED << auditVars, crawlVars, scoreVars, engineVars, medianVars, canonVars,
                    navUrl, attempt, gotoLog >>

NextNav == NavGoto \/ NavWaitForSelector \/ NavWaitForNetworkIdle

IdlePure == IdleEngine /\ IdleMedian /\ IdleCanon /\ IdleNav

InitAudit == InitAuditVars /\ IdleCrawl /\ IdleScore /\ IdlePure

InitCrawl == InitCrawlVars /\ IdleAudit /\ IdleScore /\ IdlePure

InitScore == InitScoreVars /\ IdleAudit /\ IdleCrawl /\ IdlePure

InitEngine ==
    /\ InitEngineVars /\ IdleAudit /\ IdleCrawl /\ IdleScore /\ IdleMedian /\ IdleCanon
    /\ IdleNav

InitMedian ==
    /\ InitMedianVars /\ IdleAudit /\ IdleCrawl /\ IdleScore /\ IdleEngine /\ IdleCanon
    /\ IdleNav

InitCanon ==
    /\ InitCanonVars /\ IdleAudit /\ IdleCrawl /\ IdleScore /\ IdleEngine /\ IdleMedian
    /\ IdleNav

InitNav ==
    /\ InitNavVars /\ IdleAudit /\ IdleCrawl /\ IdleScore /\ IdleEngine /\ IdleMedian
    /\ IdleCanon

(***************************************************************************)
(* crawlSite, one step per loop iteration.                                 *)
(***************************************************************************)
\* lines 247-250: the start URL is refused
CrawlRefuses ==
    /\ cPc = "call"
    /\ startUrl.scheme \notin {"http", "https"} \/ startUrl.host = << >>
    /\ cPc' = "done"
    /\ crawlResult' = [t |-> "raised", error |-> "crawler: start URL"]
    /\ UNCHANGED << auditVars, scoreVars, pureVars, startUrl, maxPages, browserGiven, RESPECT_ROBOTS, robotsTxt,
                    sitemapLocs, ownBrowser, crawlBrowser, tabOpen, tab, disallows,
                    allowedHosts, visited, queued, queue, results, seenBuckets,
                    fetchLog, observedHosts >>

seedsOfSitemapFirst(startCanon, hosts) ==
    LET sm == fetchSitemapUrls(sitemapLocs, SITEMAP_SEED_LIMIT)
        ok == SelectSeq(sm, LAMBDA u : normalizeLink(u, hosts) # Null)
    IN  dedupe([i \in 1..Len(ok) |-> normalizeLink(ok[i], hosts)] \o <<startCanon>>)

\* lines 282-292: the start URL first, then the sitemap's normalized URLs
seedsOf(startCanon, hosts) ==
    LET sm == fetchSitemapUrls(sitemapLocs, SITEMAP_SEED_LIMIT)
        ok == SelectSeq(sm, LAMBDA u : normalizeLink(u, hosts) # Null)
    IN  dedupe(<<startCanon>> \o [i \in 1..Len(ok) |-> normalizeLink(ok[i], hosts)])

\* lines 252-295: robots, browser, page, frontier seeding
CrawlSetup ==
    /\ cPc = "call"
    /\ startUrl.scheme \in {"http", "https"} /\ startUrl.host # << >>
    /\ LET startCanon == canonicalize(startUrl)
           hosts == buildAllowedHosts(startCanon.host)
       IN  /\ allowedHosts' = hosts
           /\ disallows' = IF RESPECT_ROBOTS THEN parseRobots(robotsTxt) ELSE << >>
           /\ ownBrowser' = ~browserGiven
           /\ crawlBrowser' = "open"
           /\ tabOpen' = TRUE
           /\ queue' = seedsOf(startCanon, hosts)
           /\ queued' = Range(queue')
           /\ seenBuckets' = {bucketKey(startCanon)}
    /\ cPc' = "loop"
    /\ UNCHANGED << auditVars, scoreVars, pureVars, startUrl, maxPages, browserGiven, RESPECT_ROBOTS, robotsTxt,
                    sitemapLocs, crawlResult, tab, visited, results, fetchLog,
                    observedHosts >>

\* lines 263-274, before the try block: puppeteer.launch, browser.newPage() or
\* hardenPage(page) rejects and crawlSite raises
CrawlSetupFails ==
    /\ cPc = "call"
    /\ startUrl.scheme \in {"http", "https"} /\ startUrl.host # << >>
    /\ \E failing \in {"launch", "newPage", "hardenPage"} :
          /\ failing = "launch" => ~browserGiven
          /\ ownBrowser' = (~browserGiven /\ failing # "launch")
          /\ crawlBrowser' = IF failing = "launch" THEN crawlBrowser ELSE "open"
          /\ tabOpen' = (failing = "hardenPage")
          /\ crawlResult' = [t |-> "raised", error |-> failing]
    /\ disallows' = IF RESPECT_ROBOTS THEN parseRobots(robotsTxt) ELSE << >>
    /\ allowedHosts' = buildAllowedHosts(canonicalize(startUrl).host)
    /\ cPc' = "done"
    /\ UNCHANGED << auditVars, scoreVars, pureVars, startUrl, maxPages, browserGiven,
                    RESPECT_ROBOTS, robotsTxt, sitemapLocs, tab, visited, queued, queue,
                    results, seenBuckets, fetchLog, observedHosts >>

loopContinuesPastLimit == queue # << >> /\ Len(results) <= maxPages

\* line 298: while (queue.length && results.length < maxPages)
loopContinues == queue # << >> /\ Len(results) < maxPages

robotsNeverForbid(current) == FALSE

\* lines 304-310
robotsForbid(current) ==
    RESPECT_ROBOTS /\ Len(disallows) > 0 /\ pathDisallowed(current.path, disallows)

LoopSkipRequeues ==
    /\ cPc = "loop"
    /\ loopContinues
    /\ LET current == Head(queue)
       IN  /\ current \in visited \/ robotsForbid(current)
           /\ queue' = Append(Tail(queue), current)
    /\ UNCHANGED << auditVars, scoreVars, pureVars, startUrl, maxPages, browserGiven,
                    RESPECT_ROBOTS, robotsTxt, sitemapLocs, cPc, crawlResult, ownBrowser,
                    crawlBrowser, tabOpen, tab, disallows, allowedHosts, visited, queued,
                    results, seenBuckets, fetchLog, observedHosts >>

\* lines 301 and 306-309: the dequeued URL is skipped
LoopSkip ==
    /\ cPc = "loop"
    /\ loopContinues
    /\ LET current == Head(queue)
       IN  /\ current \in visited \/ robotsForbid(current)
           /\ visited' = visited \cup {current}
           /\ queue' = Tail(queue)
           /\ queued' = queued \ {current}
    /\ UNCHANGED << auditVars, scoreVars, pureVars, startUrl, maxPages, browserGiven, RESPECT_ROBOTS, robotsTxt,
                    sitemapLocs, cPc, crawlResult, ownBrowser, crawlBrowser, tabOpen, tab,
                    disallows, allowedHosts, results, seenBuckets, fetchLog,
                    observedHosts >>

\* navigateWithFallback never raises: when the three goto attempts all fail the
\* page keeps the document it had, or shows the browser's error page
docAfterNavigation(current, nav) ==
    CASE nav = "loaded" -> SiteDoc(current)
      [] nav = "failed, old document kept" -> tab
      [] nav = "failed, error page shown" -> ErrorDoc

\* lines 312-348: what is recorded for the dequeued URL
recordedPage(current, doc, extraction) ==
    [url |-> current,
     html |-> IF extraction = "content throws" THEN EmptyHtml ELSE contentOf(doc),
     links |-> IF extraction = "all read" THEN linksBreakdownOf(doc) ELSE ZeroLinks]

\* lines 299-378: one iteration that fetches the dequeued URL
LoopFetch ==
    /\ cPc = "loop"
    /\ loopContinues
    /\ Head(queue) \notin visited /\ ~robotsForbid(Head(queue))
    /\ \E nav \in {"loaded", "failed, old document kept", "failed, error page shown"},
          extraction \in {"all read", "link count throws", "content throws"},
          anchorsRead \in BOOLEAN :
          LET current == Head(queue)
              doc == docAfterNavigation(current, nav)
              hosts == allowedHosts \cup buildAllowedHosts(doc.url.host)
              rest == Tail(queue)
              \* line 300: queued.delete(current)
              queuedRest == queued \ {current}
              seen == visited \cup {current}
              links == extractLinks(IF anchorsRead THEN doc.hrefs ELSE << >>, hosts)
              new == SelectSeq(links, LAMBDA n : n \notin seen /\ n \notin queuedRest)
              parts == partitionLinks(new, seenBuckets)
              fresh == parts.fresh
              common == parts.common
              limit == maxPages + EnqueueSlack
              nResults == Len(results) + 1
              withFresh == pushUntil(rest, fresh, nResults, limit)
              pushedFresh == Len(withFresh) - Len(rest)
              \* seenBuckets.add(b) precedes the break test
              marked == IF pushedFresh < Len(fresh) THEN pushedFresh + 1 ELSE pushedFresh
          IN  /\ tab' = doc
              /\ fetchLog' = Append(fetchLog, [url |-> current, nav |-> nav,
                                               extraction |-> extraction])
              /\ observedHosts' = observedHosts \cup {doc.url.host}
              /\ allowedHosts' = hosts
              /\ visited' = seen
              /\ results' = Append(results, recordedPage(current, doc, extraction))
              /\ seenBuckets' = seenBuckets \cup {bucketKey(fresh[i]) : i \in 1..marked}
              /\ queue' = pushUntil(withFresh, common, nResults, limit)
              \* queued.add(n) with every queue.push(n)
              /\ queued' = queuedRest \cup {queue'[i] : i \in (Len(rest) + 1)..Len(queue')}
    /\ UNCHANGED << auditVars, scoreVars, pureVars, startUrl, maxPages, browserGiven, RESPECT_ROBOTS, robotsTxt,
                    sitemapLocs, cPc, crawlResult, ownBrowser, crawlBrowser, tabOpen,
                    disallows >>

\* lines 298 and 380-387: the loop ends, the page (and an own browser) is closed
LoopExit ==
    /\ cPc = "loop"
    /\ ~loopContinues
    /\ tabOpen' = FALSE
    /\ crawlBrowser' = IF ownBrowser THEN "closed" ELSE crawlBrowser
    /\ crawlResult' = [t |-> "returned", list |-> results]
    /\ cPc' = "done"
    /\ UNCHANGED << auditVars, scoreVars, pureVars, startUrl, maxPages, browserGiven, RESPECT_ROBOTS, robotsTxt,
                    sitemapLocs, ownBrowser, tab, disallows, allowedHosts, visited, queued,
                    queue, results, seenBuckets, fetchLog, observedHosts >>

NextCrawl ==
    \/ CrawlRefuses
    \/ CrawlSetup
    \/ CrawlSetupFails
    \/ LoopSkip
    \/ LoopFetch
    \/ LoopExit

(***************************************************************************)
(* The specifications.                                                     *)
(***************************************************************************)
SpecAudit == InitAudit /\ [][NextAudit]_vars

SpecCrawl == InitCrawl /\ [][NextCrawl]_vars

\* ENABLED <<NextCrawl>>_vars written out: the guards of CrawlRefuses and
\* CrawlSetup cover cPc = "call", those of LoopSkip, LoopFetch and LoopExit
\* cover cPc = "loop", and each of these steps changes cPc, queue or results
crawlCanStep == cPc # "done"

\* crawlSite runs alone and every await in it settles (each navigation and
\* wait has a timeout), so a step that can be taken is taken: weak fairness
\* of NextCrawl, that is WF_vars(NextCrawl), with its ENABLED written out
crawlFairness == []<>(~crawlCanStep) \/ []<><<NextCrawl>>_vars

SpecCrawlFair == InitCrawl /\ [][NextCrawl]_vars /\ crawlFairness

SpecScore == InitScore /\ [][NextScore]_vars

SpecEngine == InitEngine /\ [][NextEngine]_vars

SpecMedian == InitMedian /\ [][NextMedian]_vars

SpecCanon == InitCanon /\ [][NextCanon]_vars

SpecNav == InitNav /\ [][NextNav]_vars


(***************************************************************************)
(* Properties of runAudit (under SpecAudit).                               *)
(***************************************************************************)
sessionAcquired == launches > 0

\* C1: for a targetUrl that begins with http:// or https://, once the browser
\* session has been acquired no exception leaves runAudit, whichever of the
\* later stages fail; when the call is over it has returned a report, and the
\* report's scores is a mapping (never null or undefined).
C1_ReportAfterSessionAcquired ==
    (isHttpUrl(targetUrl) /\ sessionAcquired) =>
        /\ ~pending
        /\ result.t # "raised"
        /\ aPc = "done" =>
              /\ result.t = "returned"
              /\ result.report.scores \notin {Null, Undefined}
              /\ DOMAIN result.report.scores \subseteq
                    {"seo", "performance", "accessibility", "content", "ux"}

\* C1 witness: a report returned although screenshot, lab audit, field data
\* and signal producer all failed in the same call.
C1_Witness_AllStagesFailed ==
    /\ result.t = "returned"
    /\ sessionAcquired
    /\ result.report.screenshotBase64 = Null
    /\ chrome = "killed" /\ Len(rounds) < LabRounds
    /\ PSI_API_KEY /\ psi = Null
    /\ result.report.structuredSignals = << >>
    /\ DOMAIN result.report.scores # {}

\* C2: no stage failure aborts the call: for every targetUrl that begins with
\* http:// or https:// runAudit does not raise, the browser launch failing
\* included; only a malformed URL makes it raise.
C2_OnlyMalformedUrlRaises ==
    result.t = "raised" => ~isHttpUrl(targetUrl)

\* C3: at most one browser session is acquired per call, and once runAudit is
\* past its finally block (about to return, returned or raised) an acquired
\* session has been closed.
C3_SessionReleasedOnExit ==
    /\ launches <= 1
    /\ browser = "undefined" <=> launches = 0
    /\ aPc \in {"return", "done"} /\ sessionAcquired => browser = "closed"

\* C3 witness: the call is over, its one session was acquired and is closed,
\* after the crawl returned nothing and the lab stage failed.
C3_Witness_ClosedAfterFailures ==
    /\ aPc = "done"
    /\ launches = 1
    /\ browser = "closed"
    /\ pages = << >>
    /\ chrome = "none"

\* C4: the lab browser process and the PageFetcher session are never alive at
\* the same time.
C4_LabAndSessionNeverOverlap ==
    ~(chrome = "alive" /\ browser = "open")


stagesRun == [i \in 1..Len(stageLog) |-> stageLog[i].stage]
stageWasEntered(name) == \E i \in 1..Len(stageLog) : stageLog[i].stage = name

\* the lab stage is over: lines 277-282 have been left
labStageOver == stageWasEntered("lab") /\ aPc # "labRun"

\* C22: the lab runs go one after another against the one launched process
\* (a run exists only once the process does, and the loop runs only while it
\* is alive); when the launch or any run failed, the stage leaves no lab
\* metrics however many runs had succeeded, and the report's performance,
\* accessibility, seo and bestPractices are null; three good runs leave their
\* medians; the call goes on to a report; and no lab process is alive once
\* the stage is over.
C22_LabStageAllOrNothing ==
    /\ Len(rounds) <= LabRounds
    /\ Len(rounds) > 0 => chrome # "none"
    /\ aPc = "labRun" => chrome = "alive"
    /\ labStageOver =>
          /\ chrome # "alive"
          /\ Len(rounds) < LabRounds => lighthouseLab = << >>
          /\ Len(rounds) = LabRounds => lighthouseLab = medians(rounds)
          /\ ~pending
    /\ (aPc = "done" /\ stageWasEntered("lab")) => result.t = "returned"
    /\ (result.t = "returned" /\ Len(rounds) < LabRounds) =>
          /\ result.report.lighthouse.performance = Null
          /\ result.report.lighthouse.accessibility = Null
          /\ result.report.lighthouse.seo = Null
          /\ result.report.lighthouse.bestPractices = Null

\* C22 witness: two runs succeeded with performance scores, the third failed;
\* the process is killed and the report holds no lab metric.
C22_Witness_ThirdRunFailed ==
    /\ result.t = "returned"
    /\ Len(rounds) = 2
    /\ rounds[1].performance # Null /\ rounds[2].performance # Null
    /\ chrome = "killed"
    /\ result.report.lighthouse.performance = Null
    /\ result.report.lighthouse.accessibility = Null

\* v lies between a and b
liesBetween(v, a, b) ==
    \/ JsLe(a, v) /\ JsLe(v, b)
    \/ JsLe(b, v) /\ JsLe(v, a)

\* C23: once scoring was entered, the performance handed to the engine is
\* 0.7 * lab + 0.3 * field exactly when PSI_BLEND is on and the lab
\* performance and the field proxy are both non-null, and is then between
\* the two; in every other case it is the lab performance itself, null
\* included; accessibility, bestPractices and seo are the lab's own values.
C23_BlendOnlyWhenBothPresent ==
    stageWasEntered("scoring") =>
        LET labPerf == orNull(Get(lighthouseLab, "performance"))
            field == fieldPerformanceProxy(psi)
            blended == PSI_BLEND /\ labPerf # Null /\ ~IsNullish(field)
            passed == lhPassed.f.performance
        IN  /\ blended =>
                  /\ passed = JsAdd(JsMul(Num(7, 10), labPerf), JsMul(Num(3, 10), field))
                  /\ liesBetween(passed, labPerf, field)
            /\ ~blended => passed = labPerf
            /\ labPerf = Null => passed = Null
            /\ lhPassed.f.accessibility = orNull(Get(lighthouseLab, "accessibility"))
            /\ lhPassed.f.bestPractices = orNull(Get(lighthouseLab, "bestPractices"))
            /\ lhPassed.f.seo = orNull(Get(lighthouseLab, "seo"))

\* C23 witness: lab performance 0.2 and field proxy 0.8 blended to 0.38.
C23_Witness_Blended ==
    /\ stageWasEntered("scoring")
    /\ PSI_BLEND
    /\ Get(lighthouseLab, "performance") = Num(1, 5)
    /\ fieldPerformanceProxy(psi) = Num(4, 5)
    /\ lhPassed.f.performance = Num(19, 50)

fallbackFetches == Cardinality({i \in 1..Len(stageLog) : stageLog[i].stage = "fallback"})

\* C24: once past the fallback step, a crawl that left no page (it raised or
\* returned none) was followed by exactly one homepage fetch, made with the
\* one launched browser, leaving either the one page FallbackPage (zero link
\* counts) or no page; a crawl that left pages was followed by none and its pages are
\* kept; and a returned report saw screenshot, lab, field data, signals and
\* scoring entered in that order after it.
C24_HomepageFallback ==
    /\ (stageLog # << >> /\ aPc # "fallback") =>
          /\ stageLog[1].stage = "crawl"
          /\ stageLog[1].corpus = 0 =>
                /\ fallbackFetches = 1
                /\ stageLog[2].stage = "fallback"
                /\ launches = 1
                /\ pages = IF stageLog[2].corpus = 0 THEN << >> ELSE << FallbackPage >>
          /\ stageLog[1].corpus > 0 =>
                /\ fallbackFetches = 0
                /\ pages = [i \in 1..stageLog[1].corpus |-> CrawledPage(i)]
    /\ result.t = "returned" =>
          stagesRun = (IF stageLog[1].corpus = 0 THEN << "crawl", "fallback" >>
                       ELSE << "crawl" >>)
                      \o << "screenshot", "lab", "psi", "signals", "scoring" >>

\* C24 witness: the crawl left nothing, the homepage fetch failed too, and the
\* report was returned after all later stages, from an empty corpus.
C24_Witness_EmptyCorpusReport ==
    /\ result.t = "returned"
    /\ stageLog[1].corpus = 0
    /\ stageLog[2] = entered("fallback", << >>)
    /\ pages = << >>
    /\ Len(stagesRun) = 7

(***************************************************************************)
(* Properties of crawlSite (under SpecCrawl).                              *)
(***************************************************************************)
recordedUrls == {results[i].url : i \in 1..Len(results)}

\* C5: at every point of a crawl the number of recorded pages is at most
\* maxPages, and so is the length of the list crawlSite returns.
C5_AtMostMaxPages ==
    /\ Len(results) <= maxPages
    /\ crawlResult.t = "returned" => Len(crawlResult.list) <= maxPages

\* C5 witness: the crawl returned exactly maxPages (at least two) pages while
\* URLs were still waiting in the frontier, after a page failed to load.
C5_Witness_StoppedAtLimit ==
    /\ crawlResult.t = "returned"
    /\ maxPages >= 2
    /\ Len(crawlResult.list) = maxPages
    /\ queue # << >>
    /\ \E i \in 1..Len(fetchLog) : fetchLog[i].nav # "loaded"

\* what identifies a page: its URL without query, fragment and trailing slashes
pageIdentity(u) == << u.scheme, u.host, StripTrailingSlashes(u.path) >>

\* C6: the recorded pages are pairwise distinct as pages: no two of them have
\* URLs that differ at most in query, fragment or trailing slashes.
C6_NoPageRecordedTwice ==
    \A i, j \in 1..Len(results) :
        i # j => pageIdentity(results[i].url) # pageIdentity(results[j].url)

\* C6 witness: the sitemap names /p/?q=1#y and /p, the start page links to
\* both again, and /p is among two or more recorded pages.
C6_Witness_VariantsOffered ==
    /\ \E i \in 1..Len(sitemapLocs) : sitemapLocs[i] = UrlPVariant
    /\ \E i \in 1..Len(sitemapLocs) : sitemapLocs[i] = UrlP
    /\ UrlRoot \in recordedUrls
    /\ UrlP \in recordedUrls
    /\ fetchLog[1].nav = "loaded"

\* the hosts an observed final host h allows
hostForms(h) == { h, bareHost(h), <<"www">> \o bareHost(h) }

\* C7: every recorded and every enqueued URL has a host that is the start
\* host, its bare form or its www. form, or one of these three forms of a
\* host the page showed after a navigation.
C7_OnlyAllowedHosts ==
    cPc \in {"loop", "done"} =>
        LET permitted == UNION { hostForms(h) : h \in {startUrl.host} \cup observedHosts }
        IN  /\ \A i \in 1..Len(results) : results[i].url.host \in permitted
            /\ \A i \in 1..Len(queue) : queue[i].host \in permitted

\* C7 witness: a page of b.net is recorded in a crawl started on a.com, whose
\* /r redirects to b.net; the link to c.org on that page was not followed.
C7_Witness_RedirectWidened ==
    /\ startUrl.host = HostA
    /\ \E i \in 1..Len(results) : results[i].url.host = HostB
    /\ \A i \in 1..Len(results) : results[i].url.host # HostC
    /\ cPc = "done"

\* the literal path prefixes robots.txt lists in Disallow lines of its
\* User-agent: * blocks
starDisallowPrefixes ==
    { robotsTxt[i].v : i \in
        { i \in 1..Len(robotsTxt) :
            /\ robotsTxt[i].k = "disallow"
            /\ robotsTxt[i].v # << >>
            /\ robotsTxt[i].v[1] = "/"
            /\ \A c \in 1..Len(robotsTxt[i].v) : robotsTxt[i].v[c] # "*"
            /\ \E j \in 1..(i - 1) :
                  /\ robotsTxt[j] = UaLine(<<"*">>)
                  /\ \A m \in (j + 1)..(i - 1) : robotsTxt[m].k # "user-agent" } }

underDisallow(u) == \E P \in starDisallowPrefixes : StartsWith(u.path, P)

\* C8: with RESPECT_ROBOTS on, no URL whose path begins with a prefix that
\* robots.txt disallows for User-agent: * is navigated to or recorded,
\* whether it was the start URL, a sitemap seed or a discovered link.
C8_DisallowedNeverFetched ==
    RESPECT_ROBOTS =>
        /\ \A i \in 1..Len(results) : ~underDisallow(results[i].url)
        /\ \A i \in 1..Len(fetchLog) : ~underDisallow(fetchLog[i].url)
        /\ crawlResult.t = "returned" =>
              \A i \in 1..Len(crawlResult.list) : ~underDisallow(crawlResult.list[i].url)

\* C8 witness: /p/x came from the sitemap and /p from a link of the recorded
\* start page; both are disallowed and marked visited, neither is recorded.
C8_Witness_SkippedAndMarked ==
    /\ RESPECT_ROBOTS
    /\ UrlRoot \in recordedUrls
    /\ underDisallow(UrlP) /\ UrlP \in visited /\ UrlP \notin recordedUrls
    /\ underDisallow(UrlPX) /\ UrlPX \in visited /\ UrlPX \notin recordedUrls

\* C8 witness for the start URL: the start URL is disallowed, the crawl is
\* over and returned no page.
C8_Witness_StartDisallowed ==
    /\ RESPECT_ROBOTS
    /\ underDisallow(canonicalize(startUrl))
    /\ canonicalize(startUrl) \in visited
    /\ crawlResult.t = "returned" /\ crawlResult.list = << >>

pageFailed(i) == fetchLog[i].nav # "loaded" \/ fetchLog[i].extraction # "all read"

\* C9: a page whose navigation failed with every wait strategy, or whose
\* content or link count could not be read, is recorded with empty content
\* and link counts all zero.
C9_FailedPageRecordedEmpty ==
    \A i \in 1..Len(results) :
        pageFailed(i) => results[i].html = EmptyHtml /\ results[i].links = ZeroLinks

\* C9, the part that holds: a failed page is recorded under its URL and the
\* crawl goes on; crawlSite raises for nothing but a refused start URL.
C9_FailureNeverAborts ==
    /\ Len(fetchLog) = Len(results)
    /\ \A i \in 1..Len(results) : results[i].url = fetchLog[i].url
    /\ crawlResult.t = "raised" => cPc = "done" /\ results = << >>


wellFormedHttpUrl(url) == isHttpUrl(url) /\ parsesAsUrl(url)

\* C17 (under SpecAudit): for a targetUrl that is not a well-formed absolute
\* http(s) URL runAudit acquires no browser session and returns no report.
C17_MalformedUrlNeverLaunches ==
    ~wellFormedHttpUrl(targetUrl) => launches = 0 /\ result.t # "returned"

\* C19 (under SpecCrawlFair): every crawl comes to its end, and when the loop
\* has ended the frontier is empty or the result count equals maxPages.
C19_CrawlTerminates ==
    /\ <>(cPc = "done")
    /\ [](crawlResult.t = "returned" =>
              queue = << >> \/ Len(crawlResult.list) = maxPages)

\* C19 witness: a crawl ended with URLs left in the frontier after it had
\* skipped a disallowed URL and recorded a page that failed to load.
C19_Witness_EndedWithFrontier ==
    /\ cPc = "done"
    /\ crawlResult.t = "returned"
    /\ queue # << >>
    /\ Len(results) = maxPages
    /\ \E u \in visited : u \notin recordedUrls
    /\ \E i \in 1..Len(fetchLog) : fetchLog[i].nav = "failed, error page shown"

\* C20: from the seeding on, frontier size plus result count is at most
\* maxPages + 8.
C20_FrontierWithinSlack ==
    cPc \in {"loop", "done"} => Len(queue) + Len(results) <= maxPages + EnqueueSlack

\* C20, the part that holds: a loop iteration never enqueues a discovered
\* link once frontier size plus result count has reached maxPages + 8.
C20_NoEnqueuePastSlack ==
    [][(cPc = "loop" /\ Len(queue') + Len(results') > maxPages + EnqueueSlack)
          => Len(queue') + Len(results') <= Len(queue) + Len(results)]_vars

\* the links a loop step appended to the frontier
addedBy(before, after) == SubSeq(after, Len(before), Len(after))

\* C21: a loop step takes the URL at the head of the frontier and leaves the
\* rest in order, appending at the tail (first-in first-out); the URLs a fetch
\* appends were neither visited nor queued, and among them every URL whose
\* bucket was not in seenBuckets before the step comes before every URL whose
\* bucket was.
C21_FreshBeforeCommonFifo ==
    [][(cPc = "loop" /\ cPc' = "loop") =>
          LET added == addedBy(queue, queue')
          IN  /\ Len(queue') >= Len(queue) - 1
              /\ SubSeq(queue', 1, Len(queue) - 1) = Tail(queue)
              /\ results' # results => results'[Len(results')].url = Head(queue)
              /\ \A i \in 1..Len(added) :
                    /\ added[i] \notin visited'
                    /\ added[i] \notin Range(Tail(queue))
                    /\ \A j \in 1..Len(added) :
                          (/\ bucketKey(added[i]) \notin seenBuckets
                           /\ bucketKey(added[j]) \in seenBuckets) => i < j]_vars

\* C21 witness: the page b.net/w lists /w/k (bucket w, seen) before the root
\* page of a.com (bucket not seen); after its fetch the frontier ends with the
\* root page first and /w/k second.
C21_Witness_FreshOvertookCommon ==
    /\ cPc = "loop"
    /\ Len(results) = 2
    /\ results[2].url = canonicalize(UrlBW)
    /\ SiteLinks(results[2].url) = << UrlBWK, UrlRoot >>
    /\ bucketKey(UrlBWK) \in seenBuckets
    /\ queue = << UrlRoot, UrlBWK >>

\* C27: at the head of every iteration the frontier holds no URL twice, the
\* queued set is exactly the set of URLs in the frontier, and no URL in the
\* frontier is in the visited set.
C27_FrontierConsistent ==
    cPc = "loop" =>
        /\ \A i, j \in 1..Len(queue) : queue[i] = queue[j] => i = j
        /\ queued = Range(queue)
        /\ Range(queue) \cap visited = {}

\* C27 witness: two pages are visited, one of them /p whose links back to the
\* visited root page and on to /p/x were read, and two URLs wait in the
\* frontier.
C27_Witness_LinksBackToVisited ==
    /\ cPc = "loop"
    /\ Len(results) = 2
    /\ UrlRoot \in visited
    /\ results[2].url = UrlP
    /\ fetchLog[2].nav = "loaded" /\ fetchLog[2].extraction = "all read"
    /\ UrlPX \in queued
    /\ Len(queue) >= 2

\* robots.txt forbids the path of the start URL as given
startDisallowed ==
    /\ RESPECT_ROBOTS
    /\ parseRobots(robotsTxt) # << >>
    /\ pathDisallowed(startUrl.path, parseRobots(robotsTxt))

\* C28: a crawl with maxPages >= 1 whose start path robots.txt does not
\* forbid returns a list whose first page is the canonical start URL,
\* whatever the sitemap holds.
C28_FirstPageIsStart ==
    (crawlResult.t = "returned" /\ maxPages >= 1 /\ ~startDisallowed) =>
        /\ Len(crawlResult.list) >= 1
        /\ crawlResult.list[1].url = canonicalize(startUrl)

\* C28 witness: the sitemap seeded other pages and robots.txt forbids some
\* paths, the crawl returned several pages and the first is the start page.
C28_Witness_SeededCrawl ==
    /\ crawlResult.t = "returned"
    /\ sitemapLocs = << UrlPX, UrlPVariant, UrlExternal, UrlP >>
    /\ disallows # << >>
    /\ startUrl = UrlRoot
    /\ Len(crawlResult.list) >= 2
    /\ crawlResult.list[1].url = UrlRoot
    /\ crawlResult.list[2].url = UrlPX

\* the documents whose content may be recorded for u: the one the site
\* serves for u, the browser's error page, the new tab's blank page
ownDocuments(u) == { SiteDoc(u).url, ErrorDoc.url, BlankDoc.url }

\* C29: the html recorded for a URL is never the content of another URL's
\* document, and a fetch whose navigation failed and left the previous
\* document in the tab records no links from it.
C29_OnlyOwnDocumentUsed ==
    /\ \A i \in 1..Len(results) :
          results[i].html.t = "html" => results[i].html.of \in ownDocuments(results[i].url)
    /\ \A i \in 1..Len(results) :
          fetchLog[i].nav = "failed, old document kept" =>
              results[i].links = ZeroLinks

\* C30: when crawlSite has returned or raised, its tab is closed, a browser
\* it launched itself is closed, and a browser it was given is still open.
C30_TabAndOwnBrowserClosed ==
    cPc = "done" =>
        /\ ~tabOpen
        /\ ownBrowser => crawlBrowser = "closed"
        /\ browserGiven => crawlBrowser = "open"

\* the part of C30 that holds: whenever the loop was entered, everything
\* opened is closed on the way out and a given browser is left open
C30_ClosedOnceLoopEntered ==
    (cPc = "done" /\ crawlResult.t = "returned") =>
        /\ ~tabOpen
        /\ ownBrowser => crawlBrowser = "closed"
        /\ browserGiven => crawlBrowser = "open"

(***************************************************************************)
(* Properties of navigateWithFallback (under SpecNav).                     *)
(***************************************************************************)
\* the page.goto calls made so far that were rejected
failedAttempts == { k \in 1..Len(gotoLog) : gotoLog[k].outcome # "ok" }

\* the state of the navigation as the attempts made so far determine it
navState ==
    IF gotoLog = << >> THEN "NotStarted"
    ELSE IF gotoLog[Len(gotoLog)].outcome = "ok" THEN "Succeeded"
    ELSE IF Len(gotoLog) < Len(WaitStrategies) THEN "Attempting"
    ELSE "Exhausted"

\* C25: the page.goto calls for one URL use the wait strategies
\* domcontentloaded, load, default in this order, at most three calls are
\* made, a call is made only when every earlier one was rejected (so none
\* follows a resolved one), the waits start only once a call resolved or all
\* three were rejected, and the function never raises: after the third
\* rejection it returns like after a success.
C25_NavigationStateMachine ==
    nPc # "idle" =>
        /\ Len(gotoLog) <= Len(WaitStrategies)
        /\ \A k \in 1..Len(gotoLog) :
              /\ gotoLog[k].waitUntil = WaitStrategies[k]
              /\ gotoLog[k].url = navUrl
              /\ k < Len(gotoLog) => k \in failedAttempts
        /\ nPc = "goto" <=> navState \in { "NotStarted", "Attempting" }
        /\ nPc = "goto" => attempt = Len(gotoLog) + 1
        /\ navOutcome # "raised"
        /\ nPc = "done" <=> navOutcome = "returned"

\* C25 witness: all three page.goto calls were rejected, both waits timed
\* out, and the function returned.
C25_Witness_ExhaustedReturns ==
    /\ nPc = "done"
    /\ navState = "Exhausted"
    /\ failedAttempts = 1..3
    /\ waitLog = << [wait |-> "body", outcome |-> "timeout"],
                    [wait |-> "network idle", outcome |-> "timeout"] >>
    /\ navOutcome = "returned"

(***************************************************************************)
(* Properties of scoreRule (under SpecScore).                              *)
(***************************************************************************)
\* C10: whatever the rule's kind (a known one, an unknown one, none) and
\* idealRange and whatever the raw value, scoreRule returns a finite number
\* between 0 and 1, both included.
C10_ScoreInUnitInterval ==
    sPc = "scored" =>
        /\ score.t = "num"
        /\ JsLe(Zero, score)
        /\ JsLe(score, One)

\* C10 witness: a count_range rule with idealRange [4, 12] scored the raw
\* value 14 as 3/4.
C10_Witness_PartialCredit ==
    /\ sPc = "scored"
    /\ rule.type = "count_range"
    /\ rule.idealRange = [t |-> "array", a |-> << Num(4, 1), Num(12, 1) >>]
    /\ rawValue = Num(14, 1)
    /\ score = Num(3, 4)

\* x lies in [lo, hi]
insideRange(x, lo, hi) == JsGe(x, lo) /\ JsLe(x, hi)

\* x is at least as far from [lo, hi] as nearer is, on the same side
movedAway(x, nearer, lo, hi) ==
    \/ JsLe(x, nearer) /\ JsLe(nearer, hi)
    \/ JsGe(x, nearer) /\ JsGe(nearer, lo)

\* the distance of x from the nearest bound of [lo, hi]
distanceFrom(x, lo, hi) == IF JsLt(x, lo) THEN JsSub(lo, x) ELSE JsSub(x, hi)

\* C26: a count_range rule with idealRange [min, max] and a numeric raw
\* value.  With min < max and width = max - min: a raw value inside the range
\* scores 1; one outside at or beyond min - width or max + width scores 0; one
\* strictly between scores 1 - distance/width; and the score never rises as
\* the raw value moves away from the range.  With min >= max the score is 1
\* when raw >= min and 0 otherwise.
C26_CountRangeTriangle ==
    (/\ sPc = "scored"
     /\ rule.type = "count_range"
     /\ rule.idealRange.t = "array"
     /\ Len(rule.idealRange.a) = 2
     /\ IsNumber(rawValue)) =>
        LET min == rule.idealRange.a[1]
            max == rule.idealRange.a[2]
            width == JsSub(max, min)
            inside == insideRange(rawValue, min, max)
            beyond == \/ JsLe(rawValue, JsSub(min, width))
                      \/ JsGe(rawValue, JsAdd(max, width))
        IN  /\ JsLt(min, max) =>
                  /\ inside => score = One
                  /\ (~inside /\ beyond) => score = Zero
                  /\ (~inside /\ ~beyond /\ rawValue # NaN) =>
                        score = JsSub(One, JsDiv(distanceFrom(rawValue, min, max), width))
                  /\ \A nearer \in RawValues :
                        (IsNumber(nearer) /\ movedAway(rawValue, nearer, min, max)) =>
                            JsLe(score, scoreCountRange(nearer, rule.idealRange))
            /\ JsGe(min, max) =>
                  score = IF JsGe(rawValue, min) THEN One ELSE Zero

\* C26 witness: idealRange [4, 12] has width 8; the raw value -1 is 5 below
\* the range and was scored 1 - 5/8 = 3/8.
C26_Witness_BelowRange ==
    /\ sPc = "scored"
    /\ rule.type = "count_range"
    /\ rule.idealRange = [t |-> "array", a |-> << Num(4, 1), Num(12, 1) >>]
    /\ rawValue = Num(-1, 1)
    /\ score = Num(3, 8)

(***************************************************************************)
(* Properties of scoringEngine (under SpecEngine).                         *)
(***************************************************************************)
\* the rubric section a section of the result was computed from
sectionOf(n) == rubricRaw[CHOOSE i \in 1..Len(rubricRaw) : rubricRaw[i].name = n]

totalWeighted(sec) ==
    SumSeq([i \in 1..Len(sec.signals) |-> JsMul(sec.signals[i].weight, sec.signals[i].score)])

totalWeight(sec) == SumSeq([i \in 1..Len(sec.signals) |-> sec.signals[i].weight])

\* C11: every section of the result has weightedScore = totalWeighted /
\* totalWeight when the total weight is not 0 and weightedScore = 0 when it
\* is 0, and weightedScore is a number between 0 and 1.
C11_WeightedScoreIsRatioInUnitInterval ==
    ePc = "done" =>
        /\ DOMAIN out = {rubricRaw[i].name : i \in 1..Len(rubricRaw)}
        /\ \A n \in DOMAIN out :
              LET sec == out[n]
                  tw == totalWeight(sec)
              IN  /\ tw # Zero => sec.weightedScore = JsDiv(totalWeighted(sec), tw)
                  /\ tw = Zero => sec.weightedScore = Zero
                  /\ sec.weightedScore.t = "num"
                  /\ JsLe(Zero, sec.weightedScore) /\ JsLe(sec.weightedScore, One)

\* C11 witness: one result holds a section whose rules all weigh 0 (one of
\* them scoring 1) with weightedScore 0, and a section with weights 2, 3 and 1
\* whose weightedScore is 3/4.
C11_Witness_ZeroAndMixedWeights ==
    /\ ePc = "done"
    /\ rubricRaw = TestRubric
    /\ engineSiteType = "media"
    /\ out["zero"].signals[1].score = One
    /\ out["zero"].weightedScore = Zero
    /\ out["weights"].max = Num(6, 1)
    /\ out["weights"].weightedScore = Num(3, 4)

\* the grade of the first threshold, in list order, whose minScore <= score
expectedGrade(sc, th) ==
    LET hit == {i \in 1..Len(th) : JsLe(th[i].minScore, sc)}
    IN  th[CHOOSE i \in hit : \A j \in hit : i <= j].grade

\* C12: a section's grade is that of the first threshold (they are listed in
\* descending minScore order) whose minScore <= weightedScore, equality
\* included; two rules of weight 1 scoring 1 and 0.5 give 0.75 and grade B
\* under the default thresholds; a section of total weight 0 gets the grade
\* of the last threshold.
C12_GradeIsFirstThresholdReached ==
    ePc = "done" =>
        /\ \A n \in DOMAIN out :
              /\ out[n].grade = expectedGrade(out[n].weightedScore, sectionOf(n).thresholds)
              /\ totalWeight(out[n]) = Zero =>
                    out[n].grade =
                        sectionOf(n).thresholds[Len(sectionOf(n).thresholds)].grade
        /\ (/\ rubricRaw = TestRubric
            /\ Get(signals, "r1") = One
            /\ Get(signals, "r2") = Num(1, 2)) =>
              /\ out["scenario"].weightedScore = Num(3, 4)
              /\ out["scenario"].grade = "B"

\* C12 witness: the 1.0 / 0.5 scenario graded B, next to a zero-weight
\* section graded Q, the lowest grade of its own threshold list.
C12_Witness_ScenarioGradedB ==
    /\ ePc = "done"
    /\ rubricRaw = TestRubric
    /\ out["scenario"].signals[1].score = One
    /\ out["scenario"].signals[2].score = Num(1, 2)
    /\ out["scenario"].grade = "B"
    /\ out["zero"].grade = "Q"

LabKeys == { "pageSpeedScore", "accessibilityScore", "bestPracticesScore", "seoScore" }

\* a rule that gets a lab score in place of its missing signal
labSubstituted(r) ==
    /\ r.type = "lighthouse_score"
    /\ opts.t = "object"
    /\ r.key \in LabKeys

\* C13: a rule whose key is not in the signal map and that gets no lab score
\* in its place scores 0, whatever its kind.
C13_MissingSignalScoresZero ==
    ePc = "done" =>
        \A n \in DOMAIN out : \A i \in 1..Len(out[n].signals) :
            LET r == sectionOf(n).signals[i]
            IN  (r.key \notin DOMAIN signals /\ ~labSubstituted(r)) =>
                    out[n].signals[i].score = Zero

\* the weight the rule r gets for the requested site type
expectedWeight(r, byType) ==
    LET overrides == IF engineSiteType \in DOMAIN byType THEN byType[engineSiteType]
                     ELSE << >>
    IN  IF r.weight.t = "num" THEN r.weight
        ELSE IF r.key \in DOMAIN overrides THEN overrides[r.key]
        ELSE One

C15_ShippedOverridesHonored ==
    (ePc = "done" /\ rubricRaw = getRubric(engineSiteType)) =>
        \A n \in DOMAIN out : \A i \in 1..Len(out[n].signals) :
            LET byType == sectionOf(n).weightsBySiteType
                key == sectionOf(n).signals[i].key
            IN  (engineSiteType \in DOMAIN byType /\ key \in DOMAIN byType[engineSiteType]) =>
                    out[n].signals[i].weight = byType[engineSiteType][key]


(***************************************************************************)
(* Properties of median (under SpecMedian).                                *)
(***************************************************************************)
finiteSamples == SelectSeq(arr, LAMBDA x : x.t = "num")

below(v) == Cardinality({i \in 1..Len(finiteSamples) : JsLt(finiteSamples[i], v)})
above(v) == Cardinality({i \in 1..Len(finiteSamples) : JsLt(v, finiteSamples[i])})

\* v is the k-th smallest of the finite samples
isKth(v, k) ==
    /\ \E i \in 1..Len(finiteSamples) : finiteSamples[i] = v
    /\ below(v) < k
    /\ above(v) <= Len(finiteSamples) - k

\* C16: median ignores every sample that is not a finite number; of the n
\* finite ones it returns the middle one by rank when n is odd, the mean of
\* the two middle ones when n is even, and null when n = 0. The rank is a
\* property of the samples as a collection, so their order does not matter.
C16_MedianOfFiniteSamples ==
    mPc = "done" =>
        LET n == Len(finiteSamples)
        IN  /\ n = 0 => med = Null
            /\ (n > 0 /\ n % 2 = 1) => isKth(med, (n + 1) \div 2)
            /\ (n > 0 /\ n % 2 = 0) =>
                  \E i, j \in 1..n :
                      /\ isKth(finiteSamples[i], n \div 2)
                      /\ isKth(finiteSamples[j], n \div 2 + 1)
                      /\ med = JsDiv(JsAdd(finiteSamples[i], finiteSamples[j]), Num(2, 1))
            /\ arr = << >> => med = Null
            /\ arr = << Num(1, 2) >> => med = Num(1, 2)
            /\ arr = << Num(1, 5), Num(4, 5) >> => med = Num(1, 2)
            /\ arr = << Num(1, 10), Num(1, 2), Num(9, 10) >> => med = Num(1, 2)

\* C16 witness: median of the unsorted samples 0.8, NaN, 0.2 is 0.5.
C16_Witness_UnsortedWithNaN ==
    /\ mPc = "done"
    /\ arr = << Num(4, 5), NaN, Num(1, 5) >>
    /\ med = Num(1, 2)


(***************************************************************************)
(* Properties of canonicalize (under SpecCanon).                           *)
(***************************************************************************)
\* a and b differ at most in query, fragment and trailing slashes of the path
sameUpToQueryFragmentSlash(a, b) ==
    /\ a.scheme = b.scheme
    /\ a.host = b.host
    /\ StripTrailingSlashes(a.path) = StripTrailingSlashes(b.path)

\* C18: the canonical form has no query and no fragment, its path is the
\* argument's path without trailing slashes (the root path stays /), scheme
\* and host are kept; URLs that differ at most in query, fragment or trailing
\* slashes have the same canonical form; canonicalizing twice changes nothing.
C18_CanonicalForm ==
    /\ kPc \in {"once", "twice"} =>
          /\ canon.search = "" /\ canon.hash = ""
          /\ canon.scheme = raw.scheme /\ canon.host = raw.host
          /\ raw.path = <<"/">> => canon.path = <<"/">>
          /\ canon.path = <<"/">> \/ canon.path = StripTrailingSlashes(raw.path)
          /\ canon.path = <<"/">> \/ canon.path[Len(canon.path)] # "/"
          /\ \A other \in RawUrls :
                sameUpToQueryFragmentSlash(raw, other) => canonicalize(other) = canon
    /\ kPc = "twice" => canonAgain = canon

\* C18 witness: https://a.com/x/?q=1#y canonicalized to https://a.com/x, and
\* canonicalized again with the same result.
C18_Witness_SpecExample ==
    /\ kPc = "twice"
    /\ raw = Url("https", HostA, <<"/", "x", "/">>, "?q=1", "#y")
    /\ canon = Url("https", HostA, <<"/", "x">>, "", "")
    /\ canonAgain = canon

====
